---- MODULE Spec2Model ----
(***************************************************************************)
(* Model of the theme comparison pipeline of theme-watch.                  *)
(*                                                                         *)
(*   Part 1  RateLimiter (compare route): enqueue / executeWithRetry /     *)
(*           processQueue, on the JavaScript event loop: every action is   *)
(*           one run-to-completion stretch between two suspension points.  *)
(*   Part 2  the streaming scan loader (api.scan.tsx).                     *)
(*   Part 3  the client reading the progress stream (app.theme.diff.tsx).  *)
(*   Part 4  the direct diff of the compare route (api.compare.tsx).       *)
(*   Part 5  the compare route as a whole: direct and per-file path.       *)
(*   Part 6  the comparison history and its tables (history route).        *)
(*   Part 7  handleCompare of the page and the POST it sends to the        *)
(*           history route.                                                *)
(***************************************************************************)
EXTENDS Integers, Sequences, FiniteSets, TLC

(***************************************************************************)
(* Bounds of the model and constants of the program.                       *)
(***************************************************************************)
\* Number of tasks callers enqueue on the RateLimiter.
MaxTasks == 3
\* The clock runs for this many half-intervals after the start.
MaxTicks == 9
\* The same two bounds of the specification that follows a task through all
\* of its retries (seven intervals of backoff); its clock counts intervals.
MaxRetryTasks == 2
MaxRetryTicks == 7
\* Number of asset keys the remote store knows, and the longest listing it
\* returns for a theme.
MaxKeys == 4
MaxListing == 3
\* Number of progress events a stream carries before its final event, where
\* the client's reading of the stream is followed.
MaxProgressEvents == 2
\* Length of the longest text given to the direct diff.
MaxText == 3
\* Scans of a larger theme: the keys both listings hold.
MaxScanKeys == 6
\* Records the history may hold.
MaxComparisons == 2
\* Tasks enqueued where the limiter is followed until it comes to rest, and
\* intervals the clock may run ahead of the timers there.
MaxLiveTasks == 2
MaxLiveTicks == 1

\* private readonly minRequestInterval = 1000
minRequestInterval == 1000
\* private maxRetries = 3
maxRetries == 3

\* Granularity of the clock of Spec: half of the interval, so that a wait may
\* be a part of the interval as well as a whole one.
TimeStep == minRequestInterval \div 2
\* Date.now() at construction: lastRequestTime = 0 lies more than an interval
\* in the past.
StartTime == 2 * minRequestInterval

\* The larger of the two task bounds.
TaskBound == IF MaxTasks >= MaxRetryTasks THEN MaxTasks ELSE MaxRetryTasks
Tasks == 1..TaskBound
\* A processQueue call that passes its guard is an activation of the loop;
\* enqueue number n can start activation n.
Loops == 1..TaskBound

\* HTTP status a remote call ends with: 200 resolves, the others are thrown
\* as {status, message}.
Statuses == {200, 429, 500}

VARIABLES
  \* ---- RateLimiter fields
  queue,            \* this.queue: the tasks waiting, oldest first
  processing,       \* this.processing
  lastRequestTime,  \* this.lastRequestTime
  \* ---- runtime
  now,              \* Date.now()
  loops,            \* per activation of processQueue: where it is suspended
  enqueued,         \* number of enqueue calls made so far
  \* ---- observation
  result,           \* per task: the state of the promise enqueue returned
  outcomes,         \* per task: the status each invocation ended with
  backoffs,         \* per task: the backoff delays requested, in order
  invocations,      \* every invocation of a task body: task, retry, time
  \* ---- one request to the streaming scan loader (api.scan.tsx)
  request,          \* what authentication and the URL give the loader
  scanPc,           \* where the loader is: idle, listing, fetching, done
  inFlight,         \* remote calls (fetch) issued and not yet settled
  assets,           \* per side: the listing getThemeAssets returned
  filesInBoth,      \* keys present in both listings, in source order
  filteredFilesInBoth,
  response,         \* what the loader returned
  streamState,      \* the ReadableStream: none, readable, closed, cancelled, errored
  events,           \* the chunks given to controller.enqueue, in order
  idx,              \* position of the loop in filteredFilesInBoth
  got,              \* per side: what the current key's fetch has given
  contents,         \* the key and the two bodies of the latest pair of fetches that succeeded
  scanned,
  diffed,
  differentFiles,
  diffContents,
  contentFetches,   \* every getAssetContent call made: key, side
  failedKeys,       \* keys for which a content fetch was seen to fail
  \* ---- the client reading the progress stream (app.theme.diff.tsx)
  emitted,          \* the events the server put on the stream, in order
  unread,           \* response.body: the bytes not yet read
  decoder,          \* the TextDecoder: bytes of an incomplete character
  buffer,           \* buffer
  updates,          \* the data objects given to processProgressUpdate, in order
  finalData,        \* finalData
  clientPc,         \* reading, finished
  cuts,             \* kinds of places where a chunk has ended so far
  \* ---- one request to the direct diff of the compare route (api.compare.tsx)
  compareRequest,   \* sourceContent and targetContent as given
  compareResponse,  \* what the route returned
  \* ---- one request to the compare route, either path (part_000, api.compare.tsx)
  entryRequest,     \* the source file that serves it, the method, the parameters
  entryPc,          \* idle, fetching, done
  entryAuth,        \* authenticate.admin has been called
  entryEnqueued,    \* number of rateLimiter.enqueue calls the request made
  entryGot,         \* per side: the getThemeFileContent call and how it settled
  entryResponse,    \* what the route returned
  \* ---- the comparison history (part_000, lines 1-92) and its tables
  comparisons,      \* the rows of ThemeComparison: id, shop
  results,          \* the rows of ComparisonResult: comparisonId, fileName
  saved,            \* the two tables as they were when the records were created
  deleteRequest,    \* the session's shop and the id parameter of a DELETE
  deletePc,         \* idle, deleteMany, delete, done
  deleteResponse,   \* what the DELETE returned
  listed,           \* what the latest list request returned
  \* ---- one call of handleCompare in the page (app.theme.diff.tsx) and the
  \* ---- POST of the history route it sends (part_000, lines 31-69)
  hcPc,             \* idle, counting, fetching, reading, returned
  ui,               \* the page's state: themes chosen, loading, error, files, ...
  hcBody,           \* the response body being read: events left, how it ends
  hcFinal,          \* finalData
  posted,           \* the bodies sent to POST /api/history
  created           \* what themeComparison.create made of the body

rlVars == <<queue, processing, lastRequestTime, now, loops, enqueued,
            result, outcomes, backoffs, invocations>>

scanVars == <<request, scanPc, inFlight, assets, filesInBoth, filteredFilesInBoth, response,
              streamState, events, idx, got, contents, scanned, diffed, differentFiles,
              diffContents, contentFetches, failedKeys>>

clientVars == <<emitted, unread, decoder, buffer, updates, finalData, clientPc, cuts>>

compareVars == <<compareRequest, compareResponse>>

entryVars == <<entryRequest, entryPc, entryAuth, entryEnqueued, entryGot, entryResponse>>

historyVars == <<comparisons, results, saved, deleteRequest, deletePc, deleteResponse,
                 listed>>

handleVars == <<hcPc, ui, hcBody, hcFinal, posted, created>>

vars == <<rlVars, scanVars, clientVars, compareVars, entryVars, historyVars,
          handleVars>>

\* A step of one component leaves the other alone.
RLRests == UNCHANGED rlVars
ScanRests == UNCHANGED scanVars
ClientRests == UNCHANGED clientVars
CompareRests == UNCHANGED compareVars
EntryRests == UNCHANGED entryVars
HistoryRests == UNCHANGED historyVars
HandleRests == UNCHANGED handleVars

IdleLoop == [pc |-> "idle", task |-> 0, retryCount |-> 0, until |-> 0]

NotEnqueued == [kind |-> "none", status |-> 0]
Pending == [kind |-> "pending", status |-> 0]

(***************************************************************************)
(* Pure parts of the RateLimiter.                                          *)
(***************************************************************************)
Max(a, b) == IF a >= b THEN a ELSE b

RECURSIVE Pow2(_)
Pow2(n) == IF n = 0 THEN 1 ELSE 2 * Pow2(n - 1)

\* processQueue: if (this.processing || this.queue.length === 0) return;
ReturnsEarlyNoFlag(proc, q) == Len(q) = 0
ReturnsEarly(proc, q) == proc \/ Len(q) = 0

\* Math.max(0, this.minRequestInterval - (now - this.lastRequestTime))
TimeToWaitNone(t, last) == 0
TimeToWait(t, last) == Max(0, minRequestInterval - (t - last))

\* error.status === 429 && retryCount < this.maxRetries
ShouldRetryInclusive(status, retryCount) ==
  status = 429 /\ retryCount <= maxRetries
ShouldRetryAnyStatus(status, retryCount) ==
  status # 200 /\ retryCount < maxRetries
ShouldRetry(status, retryCount) == status = 429 /\ retryCount < maxRetries

\* Math.pow(2, retryCount) * this.minRequestInterval
BackoffTimeFlat(retryCount) == minRequestInterval
BackoffTime(retryCount) == Pow2(retryCount) * minRequestInterval

\* const task = this.queue.shift()
ShiftedLast(q) == [task |-> q[Len(q)], rest |-> SubSeq(q, 1, Len(q) - 1)]
Shifted(q) == [task |-> Head(q), rest |-> Tail(q)]

(***************************************************************************)
(* Steps of the RateLimiter.                                               *)
(***************************************************************************)
\* executeWithRetry: return await task()
Invoke(l, t, retry) ==
  /\ loops' = [loops EXCEPT ![l] =
       [pc |-> "running", task |-> t, retryCount |-> retry, until |-> 0]]
  /\ invocations' = Append(invocations, [task |-> t, retry |-> retry, at |-> now])

\* processQueue: the loop has run out of work
LeaveKeepsFlag(l, q) ==
  /\ processing' = processing
  /\ queue' = q
  /\ loops' = [loops EXCEPT ![l] = IdleLoop]
  /\ UNCHANGED <<lastRequestTime, invocations>>
Leave(l, q) ==
  /\ processing' = FALSE
  /\ queue' = q
  /\ loops' = [loops EXCEPT ![l] = IdleLoop]
  /\ UNCHANGED <<lastRequestTime, invocations>>

\* processQueue: const task = this.queue.shift(); if (task) { ... await task() }
Dispatch(l, q) ==
  IF Len(q) = 0
  THEN Leave(l, q)
  ELSE /\ queue' = Shifted(q).rest
       /\ lastRequestTime' = now
       /\ processing' = TRUE
       /\ Invoke(l, Shifted(q).task, 0)

\* processQueue: one evaluation of the while condition and the code up to the
\* next await
Iterate(l, q) ==
  IF Len(q) = 0
  THEN Leave(l, q)
  ELSE IF TimeToWait(now, lastRequestTime) > 0
       THEN /\ loops' = [loops EXCEPT ![l] =
                 [pc |-> "waiting", task |-> 0, retryCount |-> 0,
                  until |-> now + TimeToWait(now, lastRequestTime)]]
            /\ queue' = q
            /\ processing' = TRUE
            /\ UNCHANGED <<lastRequestTime, invocations>>
       ELSE Dispatch(l, q)

\* enqueue(task): push the wrapper, then processQueue() up to its first await
Enqueue(maxTasks) ==
  /\ ScanRests /\ ClientRests /\ CompareRests /\ EntryRests /\ HistoryRests /\ HandleRests
  /\ enqueued < maxTasks
  /\ LET t == enqueued + 1
         q == Append(queue, t)
     IN /\ enqueued' = t
        /\ result' = [result EXCEPT ![t] = Pending]
        /\ IF ReturnsEarly(processing, q)
           THEN /\ queue' = q
                /\ UNCHANGED <<processing, lastRequestTime, loops, invocations>>
           ELSE Iterate(t, q)
  /\ UNCHANGED <<now, outcomes, backoffs>>

\* processQueue: the throttle wait (setTimeout(resolve, timeToWait)) is over
WaitElapsed(l) ==
  /\ ScanRests /\ ClientRests /\ CompareRests /\ EntryRests /\ HistoryRests /\ HandleRests
  /\ loops[l].pc = "waiting"
  /\ now >= loops[l].until
  /\ Dispatch(l, queue)
  /\ UNCHANGED <<now, enqueued, result, outcomes, backoffs>>

\* The remote call of the running task ends with `status`; executeWithRetry
\* returns, backs off or throws, and the wrapper resolves or rejects.
TaskSettles(l, status) ==
  /\ ScanRests /\ ClientRests /\ CompareRests /\ EntryRests /\ HistoryRests /\ HandleRests
  /\ loops[l].pc = "running"
  /\ LET t == loops[l].task
         n == loops[l].retryCount
     IN /\ outcomes' = [outcomes EXCEPT ![t] = Append(@, status)]
        /\ IF status = 200
           THEN /\ result' = [result EXCEPT ![t] = [kind |-> "resolved", status |-> status]]
                /\ loops' = [loops EXCEPT ![l].pc = "settled"]
                /\ UNCHANGED backoffs
           ELSE IF ShouldRetry(status, n)
                THEN /\ backoffs' = [backoffs EXCEPT ![t] = Append(@, BackoffTime(n))]
                     /\ loops' = [loops EXCEPT ![l].pc = "backoff",
                                               ![l].until = now + BackoffTime(n)]
                     /\ UNCHANGED result
                ELSE /\ result' = [result EXCEPT ![t] = [kind |-> "rejected", status |-> status]]
                     /\ loops' = [loops EXCEPT ![l].pc = "settled"]
                     /\ UNCHANGED backoffs
  /\ UNCHANGED <<queue, processing, lastRequestTime, now, enqueued, invocations>>

\* executeWithRetry: the backoff timer fired; return this.executeWithRetry(task, retryCount + 1)
BackoffElapsed(l) ==
  /\ ScanRests /\ ClientRests /\ CompareRests /\ EntryRests /\ HistoryRests /\ HandleRests
  /\ loops[l].pc = "backoff"
  /\ now >= loops[l].until
  /\ Invoke(l, loops[l].task, loops[l].retryCount + 1)
  /\ UNCHANGED <<queue, processing, lastRequestTime, now, enqueued,
                 result, outcomes, backoffs>>

\* processQueue: await task() returned; back to the while condition
LoopResumes(l) ==
  /\ ScanRests /\ ClientRests /\ CompareRests /\ EntryRests /\ HistoryRests /\ HandleRests
  /\ loops[l].pc = "settled"
  /\ Iterate(l, queue)
  /\ UNCHANGED <<now, enqueued, result, outcomes, backoffs>>

\* Time passes, `step` milliseconds at a time.
Tick(step, maxTicks) ==
  /\ ScanRests /\ ClientRests /\ CompareRests /\ EntryRests /\ HistoryRests /\ HandleRests
  /\ now < StartTime + maxTicks * step
  /\ now' = now + step
  /\ UNCHANGED <<queue, processing, lastRequestTime, loops, enqueued,
                 result, outcomes, backoffs, invocations>>

\* Time passes until the timer a loop waits for is due (setTimeout fires).
TimerDue(l) ==
  /\ ScanRests /\ ClientRests /\ CompareRests /\ EntryRests /\ HistoryRests /\ HandleRests
  /\ loops[l].pc \in {"waiting", "backoff"}
  /\ now < loops[l].until
  /\ now' = loops[l].until
  /\ UNCHANGED <<queue, processing, lastRequestTime, loops, enqueued,
                 result, outcomes, backoffs, invocations>>

(***************************************************************************)
(* Part 2: the streaming scan loader (api.scan.tsx).                       *)
(*                                                                         *)
(* A file name is the sequence of its dot-separated segments ("a.json" is  *)
(* <<"a", "json">>), a body is the sequence of its lines, each with its    *)
(* line end.                                                               *)
(***************************************************************************)
Sides == {"source", "target"}

\* The asset keys of the store the scans run against: the first MaxKeys of these.
KeyUniverse ==
  <<<<"a", "json">>, <<"b", "liquid">>, <<"c", "txt">>, <<"d", "js">>,
    <<"json">>, <<"e", "min", "js">>>>
KeyPool ==
  {KeyUniverse[i] : i \in {j \in DOMAIN KeyUniverse : j <= MaxKeys}}

\* Listings the store may return: up to MaxListing keys, none repeated.
Listings ==
  UNION {{f \in [1..n -> KeyPool] : \A i, j \in 1..n : f[i] = f[j] => i = j} :
         n \in 0..MaxListing}

\* Asset bodies the store may return; the first is the empty string.
Bodies == {<<>>, <<"foo\n", "bar\n">>, <<"foo\n", "baz\n">>}

NoKey == <<>>
NoResponse == [kind |-> "none", status |-> 0, totalFileCount |-> -1]
JsonError(status) == [kind |-> "json", status |-> status, totalFileCount |-> -1]
NotFetched == [state |-> "pending", body |-> <<>>]
NotListed == [state |-> "pending", listing |-> <<>>]
NoContents == [key |-> NoKey, sourceContent |-> <<>>, targetContent |-> <<>>]

\* const allowedExtensions = [".js", ".json", ".liquid"]
allowedExtensions == <<"js", "json", "liquid">>

\* filename.endsWith(ext), ext being "." followed by the segment `ext`
EndsWith(filename, ext) ==
  Len(filename) >= 2 /\ filename[Len(filename)] = ext

\* Object.keys(Object.fromEntries(listing.map(f => [f.key, f]))): each key
\* once, at the place of its first occurrence
RECURSIVE ObjectKeys(_)
ObjectKeys(listing) ==
  IF listing = <<>> THEN <<>>
  ELSE LET init == ObjectKeys(SubSeq(listing, 1, Len(listing) - 1))
           last == listing[Len(listing)]
       IN IF \E i \in DOMAIN init : init[i] = last THEN init
          ELSE Append(init, last)

\* Object.keys(sourceMap).filter((key) => key in targetMap)
FilesInBothTargetOrder(sourceAssets, targetAssets) ==
  LET InSource(key) == \E i \in DOMAIN sourceAssets : sourceAssets[i] = key
  IN SelectSeq(ObjectKeys(targetAssets), InSource)
FilesInBoth(sourceAssets, targetAssets) ==
  LET InTarget(key) == \E i \in DOMAIN targetAssets : targetAssets[i] = key
  IN SelectSeq(ObjectKeys(sourceAssets), InTarget)

\* filesInBoth.filter((filename) => allowedExtensions.some((ext) => filename.endsWith(ext)))
IsAllowed(filename) ==
  \E e \in DOMAIN allowedExtensions : EndsWith(filename, allowedExtensions[e])
FilteredFilesInBothAll(keys) == keys
FilteredFilesInBoth(keys) == SelectSeq(keys, IsAllowed)

\* if (mode === "count")
CountOnlyNever(mode) == FALSE
CountOnly(mode) == mode = "count"

\* if (!shop || !accessToken)
AuthMissingShopOnly(shop, accessToken) == ~shop
AuthMissing(shop, accessToken) == ~shop \/ ~accessToken

(***************************************************************************)
(* diffLines of the diff package: a shortest edit script over lines, a     *)
(* removed line before an added one, runs of the same kind merged.         *)
(***************************************************************************)
RECURSIVE LcsLen(_, _)
LcsLen(s, t) ==
  IF s = <<>> \/ t = <<>> THEN 0
  ELSE IF Head(s) = Head(t) THEN 1 + LcsLen(Tail(s), Tail(t))
       ELSE Max(LcsLen(Tail(s), t), LcsLen(s, Tail(t)))

RECURSIVE EditScript(_, _)
EditScript(s, t) ==
  IF s = <<>> THEN [i \in 1..Len(t) |-> [op |-> "added", line |-> t[i]]]
  ELSE IF t = <<>> THEN [i \in 1..Len(s) |-> [op |-> "removed", line |-> s[i]]]
  ELSE IF Head(s) = Head(t)
       THEN <<[op |-> "equal", line |-> Head(s)]>> \o EditScript(Tail(s), Tail(t))
       ELSE IF LcsLen(Tail(s), t) >= LcsLen(s, Tail(t))
            THEN <<[op |-> "removed", line |-> Head(s)]>> \o EditScript(Tail(s), t)
            ELSE <<[op |-> "added", line |-> Head(t)]>> \o EditScript(s, Tail(t))

RECURSIVE MergeRuns(_)
MergeRuns(script) ==
  IF script = <<>> THEN <<>>
  ELSE LET init == MergeRuns(SubSeq(script, 1, Len(script) - 1))
           tok == script[Len(script)]
           n == Len(init)
       IN IF n > 0 /\ init[n].op = tok.op
          THEN [init EXCEPT ![n].value = Append(@, tok.line)]
          ELSE Append(init, [op |-> tok.op, value |-> <<tok.line>>])

Part(run) ==
  [added |-> run.op = "added", removed |-> run.op = "removed",
   value |-> run.value, count |-> Len(run.value)]

diffLines(oldStr, newStr) ==
  LET runs == MergeRuns(EditScript(oldStr, newStr))
  IN [i \in DOMAIN runs |-> Part(runs[i])]

\* diffResult.some((part) => part.added || part.removed)
IsChange(part) == part.added \/ part.removed
SomeChange(diffResult) == \E i \in DOMAIN diffResult : IsChange(diffResult[i])

\* if (isDifferent && sourceContent && targetContent): "" is falsy
CountsAsDifferentAlways(isDifferent, sourceContent, targetContent) == isDifferent
CountsAsDifferent(isDifferent, sourceContent, targetContent) ==
  isDifferent /\ sourceContent # <<>> /\ targetContent # <<>>

\* lines 151-158: diffContents[key] = { sourceContent, targetContent,
\* diffResult: diffResult.filter(...), isDifferent: true }
DiffEntryUnmarked(sourceContent, targetContent, diffResult) ==
  [sourceContent |-> sourceContent, targetContent |-> targetContent,
   diffResult |-> SelectSeq(diffResult, IsChange), isDifferent |-> FALSE]
DiffEntry(sourceContent, targetContent, diffResult) ==
  [sourceContent |-> sourceContent, targetContent |-> targetContent,
   diffResult |-> SelectSeq(diffResult, IsChange), isDifferent |-> TRUE]

(***************************************************************************)
(* The events of the progress stream. A field an event does not carry is   *)
(* -1 (numbers), NoKey (currentFile, error) or empty.                      *)
(***************************************************************************)
BlankEvent ==
  [kind |-> "", stage |-> "", totalFiles |-> -1, scannedFiles |-> -1,
   diffedFiles |-> -1, currentFile |-> NoKey, isDifferent |-> FALSE,
   error |-> NoKey, done |-> FALSE, files |-> <<>>, diffContents |-> <<>>]

\* lines 117-123
InitialEvent(total) ==
  [BlankEvent EXCEPT !.kind = "initial", !.stage = "scanning",
                     !.totalFiles = total, !.scannedFiles = 0]
\* lines 130-136
ScanningEvent(key, n) ==
  [BlankEvent EXCEPT !.kind = "scanning", !.stage = "scanning",
                     !.currentFile = key, !.scannedFiles = n]
\* lines 165-173
DiffingEvent(key, n, d, isDifferent) ==
  [BlankEvent EXCEPT !.kind = "diffing", !.stage = "diffing",
                     !.scannedFiles = n, !.diffedFiles = d,
                     !.currentFile = key, !.isDifferent = isDifferent]
\* lines 177-182
ErrorEvent(key, n) ==
  [BlankEvent EXCEPT !.kind = "error", !.scannedFiles = n, !.error = key]
\* lines 185-196
FinalEvent(files, perFile, total, n) ==
  [BlankEvent EXCEPT !.kind = "final", !.stage = "idle", !.done = TRUE,
                     !.files = files, !.diffContents = perFile,
                     !.totalFiles = total, !.scannedFiles = n,
                     !.diffedFiles = Len(files)]

\* scanned % 5 === 0, diffed % 5 === 0
ProgressEvery == 5

(***************************************************************************)
(* The body of the stream's start(controller), as a function of the state  *)
(* `st` of the loop (the variables of the same names) up to its next       *)
(* await. controller.enqueue throws unless the stream is readable.         *)
(***************************************************************************)
ContentCall(key, side) == [kind |-> "content", side |-> side, key |-> key]
ListCall(side) == [kind |-> "list", side |-> side, key |-> NoKey]

CanEnqueue(st) == st.streamState = "readable"

\* line 126: for (const key of filteredFilesInBoth), iteration i
KeyAtReversed(files, i) == files[Len(files) + 1 - i]
KeyAt(files, i) == files[i]

\* lines 200-202: catch (error) { controller.error(error) }
OuterCatch(st) ==
  [st EXCEPT !.scanPc = "done",
             !.streamState = IF @ = "readable" THEN "errored" ELSE @]

\* lines 184-199: the final event, then controller.close()
FinishLeftOpen(st, files) ==
  IF CanEnqueue(st)
  THEN [st EXCEPT !.events = Append(@, FinalEvent(st.differentFiles, st.diffContents,
                                                  Len(files), st.scanned)),
                  !.scanPc = "done"]
  ELSE OuterCatch(st)
Finish(st, files) ==
  IF CanEnqueue(st)
  THEN [st EXCEPT !.events = Append(@, FinalEvent(st.differentFiles, st.diffContents,
                                                  Len(files), st.scanned)),
                  !.streamState = "closed",
                  !.scanPc = "done"]
  ELSE OuterCatch(st)

\* lines 126-142: the head of one iteration, up to await Promise.all
StartKey(st, files) ==
  IF st.idx > Len(files) THEN Finish(st, files)
  ELSE LET key == KeyAt(files, st.idx)
           emits == st.scanned % ProgressEvery = 0
       IN IF emits /\ ~CanEnqueue(st)
          \* enqueue throws, and throws again in the catch of lines 175-183
          THEN OuterCatch([st EXCEPT !.scanned = @ + 1])
          ELSE [st EXCEPT
                 !.events = IF emits THEN Append(@, ScanningEvent(key, st.scanned)) ELSE @,
                 !.inFlight = @ \cup {ContentCall(key, side) : side \in Sides},
                 !.contentFetches = @ \o <<[key |-> key, side |-> "source"],
                                           [key |-> key, side |-> "target"]>>,
                 !.got = [side \in Sides |-> NotFetched],
                 !.scanPc = "fetching"]

\* lines 175-183: catch (e) { scanned++; enqueue(error event) }, then the next key
InnerCatchAborts(st, files) == OuterCatch([st EXCEPT !.scanned = @ + 1])
InnerCatch(st, files) ==
  LET key == KeyAt(files, st.idx)
      s1 == [st EXCEPT !.scanned = @ + 1]
  IN IF CanEnqueue(s1)
     THEN StartKey([s1 EXCEPT !.events = Append(@, ErrorEvent(key, s1.scanned)),
                              !.idx = @ + 1], files)
     ELSE OuterCatch(s1)

\* line 164: if (diffed % 5 === 0 || isDifferent)
EmitsDiffingPeriodicOnly(d, isDifferent) == d % ProgressEvery = 0
EmitsDiffing(d, isDifferent) == d % ProgressEvery = 0 \/ isDifferent

\* lines 144-174: both bodies are there
AfterBoth(st, files, sourceContent, targetContent) ==
  LET key == KeyAt(files, st.idx)
      diffResult == diffLines(sourceContent, targetContent)
      isDifferent == SomeChange(diffResult)
      s1 == [st EXCEPT !.scanned = @ + 1,
                       !.contents = [key |-> key, sourceContent |-> sourceContent,
                                     targetContent |-> targetContent]]
      s2 == IF CountsAsDifferent(isDifferent, sourceContent, targetContent)
            THEN [s1 EXCEPT
                   !.differentFiles = Append(@, key),
                   !.diffContents = (key :> DiffEntry(sourceContent, targetContent,
                                                      diffResult)) @@ @]
            ELSE s1
      s3 == [s2 EXCEPT !.diffed = @ + 1]
  IN IF EmitsDiffing(s3.diffed, isDifferent)
     THEN IF CanEnqueue(s3)
          THEN StartKey([s3 EXCEPT
                          !.events = Append(@, DiffingEvent(key, s3.scanned,
                                                  Len(s3.differentFiles), isDifferent)),
                          !.idx = @ + 1], files)
          ELSE InnerCatch(s3, files)
     ELSE StartKey([s3 EXCEPT !.idx = @ + 1], files)

\* The loop's variables as one record, and back.
LoopState ==
  [scanPc |-> scanPc, inFlight |-> inFlight, streamState |-> streamState,
   events |-> events, idx |-> idx, got |-> got, contents |-> contents,
   scanned |-> scanned,
   diffed |-> diffed, differentFiles |-> differentFiles,
   diffContents |-> diffContents, contentFetches |-> contentFetches]

Becomes(st) ==
  /\ scanPc' = st.scanPc
  /\ inFlight' = st.inFlight
  /\ streamState' = st.streamState
  /\ events' = st.events
  /\ idx' = st.idx
  /\ got' = st.got
  /\ contents' = st.contents
  /\ scanned' = st.scanned
  /\ diffed' = st.diffed
  /\ differentFiles' = st.differentFiles
  /\ diffContents' = st.diffContents
  /\ contentFetches' = st.contentFetches

EmptyMap == [k \in {} |-> 0]

NoRequest ==
  [authThrows |-> FALSE, shop |-> FALSE, accessToken |-> FALSE,
   hasIds |-> FALSE, mode |-> "stream"]

Requests ==
  [authThrows : BOOLEAN, shop : BOOLEAN, accessToken : BOOLEAN,
   hasIds : BOOLEAN, mode : {"count", "stream"}]

(***************************************************************************)
(* Steps of the scan loader.                                               *)
(***************************************************************************)
\* lines 59-85: authenticate, read the URL, issue both listing calls
LoaderStarts ==
  /\ RLRests /\ ClientRests /\ CompareRests /\ EntryRests /\ HistoryRests /\ HandleRests
  /\ scanPc = "idle"
  /\ IF request.authThrows
     THEN /\ response' = JsonError(500)
          /\ scanPc' = "done"
          /\ UNCHANGED inFlight
     ELSE IF AuthMissing(request.shop, request.accessToken)
     THEN /\ response' = JsonError(401)
          /\ scanPc' = "done"
          /\ UNCHANGED inFlight
     ELSE IF ~request.hasIds
     THEN /\ response' = JsonError(400)
          /\ scanPc' = "done"
          /\ UNCHANGED inFlight
     ELSE /\ inFlight' = {ListCall(side) : side \in Sides}
          /\ scanPc' = "listing"
          /\ UNCHANGED response
  /\ UNCHANGED <<request, assets, filesInBoth, filteredFilesInBoth, streamState, events, idx,
                 got, contents, scanned, diffed, differentFiles, diffContents,
                 contentFetches, failedKeys>>

\* lines 87-211, entered when both listings are there: reconcile, then answer
\* the count or build the stream, whose start() runs up to its first await
AfterListing(sourceAssets, targetAssets, call) ==
  LET files == FilteredFilesInBoth(FilesInBoth(sourceAssets, targetAssets))
  IN /\ filesInBoth' = FilesInBoth(sourceAssets, targetAssets)
     /\ filteredFilesInBoth' = files
     \* sourceAssets and targetAssets are not read again
     /\ assets' = [side \in Sides |-> [state |-> "ok", listing |-> <<>>]]
     /\ IF CountOnly(request.mode)
        THEN /\ response' = [kind |-> "json", status |-> 200,
                             totalFileCount |-> Len(files)]
             /\ scanPc' = "done"
             /\ inFlight' = inFlight \ {call}
             /\ UNCHANGED <<streamState, events, idx, got, contents, scanned, diffed,
                            differentFiles, diffContents, contentFetches>>
        ELSE /\ response' = [kind |-> "stream", status |-> 200,
                             totalFileCount |-> -1]
             /\ Becomes(StartKey([LoopState EXCEPT
                                   !.inFlight = @ \ {call},
                                   !.streamState = "readable",
                                   !.events = <<InitialEvent(Len(files))>>,
                                   !.idx = 1], files))

\* One of the two getThemeAssets calls settles: with a listing, or by throwing.
ListingSettles(side, ok, listing) ==
  /\ RLRests /\ ClientRests /\ CompareRests /\ EntryRests /\ HistoryRests /\ HandleRests
  /\ ListCall(side) \in inFlight
  /\ LET a == [assets EXCEPT ![side] =
                 IF ok THEN [state |-> "ok", listing |-> listing]
                       ELSE [state |-> "failed", listing |-> <<>>]]
     IN /\ IF scanPc # "listing"
           \* Promise.all has rejected already: nobody awaits this call
           THEN /\ inFlight' = inFlight \ {ListCall(side)}
                /\ assets' = a
                /\ UNCHANGED <<filesInBoth, filteredFilesInBoth, response, scanPc,
                               streamState, events, idx, got, contents, scanned, diffed,
                               differentFiles, diffContents, contentFetches>>
           ELSE IF ~ok
           \* lines 212-221: the outer catch
           THEN /\ inFlight' = inFlight \ {ListCall(side)}
                /\ assets' = a
                /\ response' = JsonError(500)
                /\ scanPc' = "done"
                /\ UNCHANGED <<filesInBoth, filteredFilesInBoth, streamState, events, idx,
                               got, contents, scanned, diffed, differentFiles, diffContents,
                               contentFetches>>
           ELSE IF \A sd \in Sides : a[sd].state = "ok"
                THEN AfterListing(a["source"].listing, a["target"].listing,
                                  ListCall(side))
                ELSE /\ inFlight' = inFlight \ {ListCall(side)}
                     /\ assets' = a
                     /\ UNCHANGED <<filesInBoth, filteredFilesInBoth, response, scanPc,
                                    streamState, events, idx, got, contents, scanned,
                                    diffed, differentFiles, diffContents,
                                    contentFetches>>
  /\ UNCHANGED <<request, failedKeys>>

\* One getAssetContent call settles: with a body, or by throwing.
ContentSettles(key, side, ok, body) ==
  /\ RLRests /\ ClientRests /\ CompareRests /\ EntryRests /\ HistoryRests /\ HandleRests
  /\ ContentCall(key, side) \in inFlight
  /\ LET awaited == /\ scanPc = "fetching"
                    /\ KeyAt(filteredFilesInBoth, idx) = key
         st == [LoopState EXCEPT !.inFlight = @ \ {ContentCall(key, side)}]
     IN /\ failedKeys' = IF ok THEN failedKeys ELSE failedKeys \cup {key}
        /\ IF ~awaited
           \* Promise.all has rejected already: nobody awaits this call
           THEN Becomes(st)
           ELSE IF ~ok
           THEN Becomes(InnerCatch(st, filteredFilesInBoth))
           ELSE LET g == [got EXCEPT ![side] = [state |-> "ok", body |-> body]]
                IN IF \A sd \in Sides : g[sd].state = "ok"
                   THEN Becomes(AfterBoth([st EXCEPT !.got = g], filteredFilesInBoth,
                                          g["source"].body, g["target"].body))
                   ELSE Becomes([st EXCEPT !.got = g])
  /\ UNCHANGED <<request, assets, filesInBoth, filteredFilesInBoth, response>>

\* The consumer of the response goes away: the stream is cancelled.
ConsumerCancels ==
  /\ RLRests /\ ClientRests /\ CompareRests /\ EntryRests /\ HistoryRests /\ HandleRests
  /\ response.kind = "stream"
  /\ streamState = "readable"
  /\ streamState' = "cancelled"
  /\ UNCHANGED <<request, scanPc, inFlight, assets, filesInBoth, filteredFilesInBoth, response,
                 events, idx, got, contents, scanned, diffed, differentFiles, diffContents,
                 contentFetches, failedKeys>>

\* lines 87-100 alone: the two listings are there, the loader reconciles them
Reconcile ==
  /\ RLRests /\ ClientRests /\ CompareRests /\ EntryRests /\ HistoryRests /\ HandleRests
  /\ scanPc = "listed"
  /\ filesInBoth' = FilesInBoth(assets["source"].listing, assets["target"].listing)
  /\ filteredFilesInBoth' =
       FilteredFilesInBoth(FilesInBoth(assets["source"].listing,
                                       assets["target"].listing))
  /\ scanPc' = "reconciled"
  /\ UNCHANGED <<request, inFlight, assets, response, streamState, events, idx,
                 got, contents, scanned, diffed, differentFiles, diffContents,
                 contentFetches, failedKeys>>

ScanNext ==
  \/ LoaderStarts
  \/ \E side \in Sides : ListingSettles(side, FALSE, <<>>)
  \/ \E side \in Sides :
       /\ ListCall(side) \in inFlight
       /\ \E listing \in Listings : ListingSettles(side, TRUE, listing)
  \/ \E key \in KeyPool, side \in Sides : ContentSettles(key, side, FALSE, <<>>)
  \/ \E key \in KeyPool, side \in Sides, body \in Bodies :
       ContentSettles(key, side, TRUE, body)
  \/ ConsumerCancels

(***************************************************************************)
(* A scan of a larger theme: both listings hold the same MaxScanKeys keys, *)
(* all of an allowed extension. Of each key the source body arrives first  *)
(* and is the same; the target's fetch gives any body, or fails.           *)
(***************************************************************************)
LongKeyUniverse ==
  <<<<"k1", "liquid">>, <<"k2", "liquid">>, <<"k3", "liquid">>, <<"k4", "liquid">>,
    <<"k5", "liquid">>, <<"k6", "liquid">>, <<"k7", "liquid">>, <<"k8", "liquid">>>>
LongListing == [i \in 1..MaxScanKeys |-> LongKeyUniverse[i]]
LongKeys == {LongListing[i] : i \in DOMAIN LongListing}
SourceBody == <<"foo\n", "bar\n">>
StreamRequest ==
  [authThrows |-> FALSE, shop |-> TRUE, accessToken |-> TRUE, hasIds |-> TRUE,
   mode |-> "stream"]

LongScanNext ==
  \/ LoaderStarts
  \/ \E side \in Sides : ListingSettles(side, TRUE, LongListing)
  \/ \E key \in LongKeys : ContentSettles(key, "source", TRUE, SourceBody)
  \/ \E key \in LongKeys, body \in Bodies :
       /\ got["source"].state = "ok"
       /\ ContentSettles(key, "target", TRUE, body)
  \/ \E key \in LongKeys :
       /\ got["source"].state = "ok"
       /\ ContentSettles(key, "target", FALSE, <<>>)
  \/ ConsumerCancels

(***************************************************************************)
(* Part 3: the client reading the progress stream (app.theme.diff.tsx,     *)
(* handleCompare). A text is a sequence of characters, the stream a         *)
(* sequence of bytes; the character "é" takes the two bytes "e1", "e2".     *)
(***************************************************************************)
\* let finalData = null
NoData == [done |-> FALSE, text |-> <<"null">>]

\* What an event carries, as far as its reading goes: done, and a string.
Texts == {<<>>, <<"é">>}
ProgressData == [done : {FALSE}, text : Texts]
FinalData == [done : {TRUE}, text : Texts]

\* Streams of a scan that ran to its end: progress events, then the final one.
Streams ==
  UNION {{Append(progress, final) :
            progress \in [1..n -> ProgressData], final \in FinalData} :
         n \in 0..MaxProgressEvents}

\* JSON.stringify(data) + "\n"
Stringify(data) ==
  <<"{", IF data.done THEN "D" ELSE "P">> \o data.text \o <<"}", "\n">>

\* The bytes of a text (UTF-8).
RECURSIVE Utf8(_)
Utf8(text) ==
  IF text = <<>> THEN <<>>
  ELSE (IF Head(text) = "é" THEN <<"e1", "e2">> ELSE <<Head(text)>>)
       \o Utf8(Tail(text))

RECURSIVE Wire(_)
Wire(stream) ==
  IF stream = <<>> THEN <<>>
  ELSE Utf8(Stringify(Head(stream))) \o Wire(Tail(stream))

\* The longest stream, in bytes.
MaxWire == (MaxProgressEvents + 1) * 6

\* Lines that are not JSON, in bytes: an object cut short, a stray brace, a
\* byte that is no character.
MalformedLines == {<<"{", "P">>, <<"}">>, <<"e2">>}
\* The bytes of a stream with the line `junk` put in after `at` of its events.
Inserted(stream, at, junk) ==
  Wire(SubSeq(stream, 1, at)) \o junk \o <<"\n">>
    \o Wire(SubSeq(stream, at + 1, Len(stream)))

\* decoder.decode(value, { stream: true }): the characters the bytes give,
\* after the bytes `pending` kept from the chunk before; the bytes of an
\* incomplete character at the end are kept. A byte that cannot continue or
\* start a character gives U+FFFD ("?").
RECURSIVE DecodeFrom(_, _, _)
DecodeFrom(pending, bytes, out) ==
  IF bytes = <<>> THEN [text |-> out, pending |-> pending]
  ELSE IF pending # <<>>
       THEN IF Head(bytes) = "e2"
            THEN DecodeFrom(<<>>, Tail(bytes), Append(out, "é"))
            ELSE DecodeFrom(<<>>, bytes, Append(out, "?"))
       ELSE IF Head(bytes) = "e1" THEN DecodeFrom(<<"e1">>, Tail(bytes), out)
       ELSE IF Head(bytes) = "e2" THEN DecodeFrom(<<>>, Tail(bytes), Append(out, "?"))
       ELSE DecodeFrom(<<>>, Tail(bytes), Append(out, Head(bytes)))
Decode(pending, bytes) == DecodeFrom(pending, bytes, <<>>)

\* buffer.split("\n")
RECURSIVE Split(_)
Split(text) ==
  IF \A i \in DOMAIN text : text[i] # "\n" THEN <<text>>
  ELSE LET i == CHOOSE k \in DOMAIN text :
                  text[k] = "\n" /\ \A j \in 1..(k - 1) : text[j] # "\n"
       IN <<SubSeq(text, 1, i - 1)>> \o Split(SubSeq(text, i + 1, Len(text)))

\* buffer = lines.pop() || ""
RemainderDropped(lines) == <<>>
Remainder(lines) == lines[Len(lines)]

\* JSON.parse(line) succeeds
Parses(line) ==
  /\ Len(line) >= 3
  /\ line[1] = "{"
  /\ line[2] \in {"P", "D"}
  /\ line[Len(line)] = "}"
  /\ \A i \in 3..(Len(line) - 1) : line[i] \in {"é", "?"}
\* JSON.parse(line)
Parse(line) == [done |-> line[2] = "D", text |-> SubSeq(line, 3, Len(line) - 1)]

\* if (line.trim()) { try { processProgressUpdate(JSON.parse(line)) } catch ... }
Handled(line) == line # <<>> /\ Parses(line)

\* The for loop over the complete lines, from the state `st` of the client.
RECURSIVE ProcessLinesStopsAtFailure(_, _)
ProcessLinesStopsAtFailure(st, lines) ==
  IF lines = <<>> THEN st
  ELSE IF Head(lines) # <<>> /\ ~Parses(Head(lines)) THEN st
  ELSE ProcessLinesStopsAtFailure(
         IF Handled(Head(lines))
         THEN [updates |-> Append(st.updates, Parse(Head(lines))),
               finalData |-> IF Parse(Head(lines)).done THEN Parse(Head(lines))
                             ELSE st.finalData]
         ELSE st,
         Tail(lines))
RECURSIVE ProcessLines(_, _)
ProcessLines(st, lines) ==
  IF lines = <<>> THEN st
  ELSE ProcessLines(
         IF Handled(Head(lines))
         THEN [updates |-> Append(st.updates, Parse(Head(lines))),
               finalData |-> IF Parse(Head(lines)).done THEN Parse(Head(lines))
                             ELSE st.finalData]
         ELSE st,
         Tail(lines))

\* One turn of the while loop: reader.read() gives the next n bytes.
ReadChunk(n) ==
  /\ RLRests /\ ScanRests /\ CompareRests /\ EntryRests /\ HistoryRests /\ HandleRests
  /\ clientPc = "reading"
  /\ n <= Len(unread)
  /\ LET value == SubSeq(unread, 1, n)
         decoded == Decode(decoder, value)
         lines == Split(buffer \o decoded.text)
         st == ProcessLines([updates |-> updates, finalData |-> finalData],
                            SubSeq(lines, 1, Len(lines) - 1))
         left == Len(unread) - n
     IN /\ unread' = SubSeq(unread, n + 1, Len(unread))
        /\ decoder' = decoded.pending
        /\ buffer' = Remainder(lines)
        /\ updates' = st.updates
        /\ finalData' = st.finalData
        /\ cuts' = cuts
             \cup (IF left > 0 /\ left < Len(Utf8(Stringify(emitted[Len(emitted)])))
                   THEN {"final"} ELSE {})
             \cup (IF decoded.pending # <<>> THEN {"character"} ELSE {})
             \cup (IF \E i \in 1..(Len(lines) - 1) :
                         lines[i] # <<>> /\ ~Parses(lines[i])
                   THEN {"parse error"} ELSE {})
  /\ UNCHANGED <<emitted, clientPc>>

\* reader.read() gives done: the loop ends, what is left in buffer is looked at.
ReadDone ==
  /\ RLRests /\ ScanRests /\ CompareRests /\ EntryRests /\ HistoryRests /\ HandleRests
  /\ clientPc = "reading"
  /\ unread = <<>>
  /\ finalData' = IF buffer # <<>> /\ Parses(buffer) /\ Parse(buffer).done
                  THEN Parse(buffer) ELSE finalData
  /\ clientPc' = "finished"
  /\ UNCHANGED <<emitted, unread, decoder, buffer, updates, cuts>>

ClientNext ==
  \/ \E n \in 1..MaxWire : ReadChunk(n)
  \/ ReadDone

(***************************************************************************)
(* Part 4: the direct diff of the compare route (api.compare.tsx): the     *)
(* texts arrive with the request, diff_match_patch compares them character *)
(* by character. A span is [op, text], op being -1 (delete), 0 (equal) or  *)
(* 1 (insert).                                                             *)
(***************************************************************************)
Chars == {"a", "\r", "\n"}
DiffTexts == UNION {[1..n -> Chars] : n \in 0..MaxText}

NoTexts == [sourceContent |-> <<>>, targetContent |-> <<>>]
NoCompare ==
  [kind |-> "none", sourceContent |-> <<>>, targetContent |-> <<>>, diffs |-> <<>>,
   stats |-> [additions |-> 0, deletions |-> 0, linesChanged |-> 0]]

Span(op, text) == [op |-> op, text |-> text]

\* diff_commonPrefix, diff_commonSuffix
RECURSIVE CommonPrefix(_, _)
CommonPrefix(s, t) ==
  IF s = <<>> \/ t = <<>> \/ Head(s) # Head(t) THEN 0
  ELSE 1 + CommonPrefix(Tail(s), Tail(t))
RECURSIVE CommonSuffix(_, _)
CommonSuffix(s, t) ==
  IF s = <<>> \/ t = <<>> \/ s[Len(s)] # t[Len(t)] THEN 0
  ELSE 1 + CommonSuffix(SubSeq(s, 1, Len(s) - 1), SubSeq(t, 1, Len(t) - 1))

\* The spans as single characters, each with the op of its span.
RECURSIVE Tokens(_)
Tokens(diffs) ==
  IF diffs = <<>> THEN <<>>
  ELSE [i \in DOMAIN Head(diffs).text |->
          [op |-> Head(diffs).op, char |-> Head(diffs).text[i]]]
       \o Tokens(Tail(diffs))

IsEqualToken(tok) == tok.op = 0
IsDeleteToken(tok) == tok.op = -1
IsInsertToken(tok) == tok.op = 1
CharsOf(tokens) == [i \in DOMAIN tokens |-> tokens[i].char]

\* Length of the longest prefix of tokens that are all equalities (eq = TRUE)
\* or all edits (eq = FALSE).
RECURSIVE RunLength(_, _)
RunLength(tokens, eq) ==
  IF tokens = <<>> \/ IsEqualToken(Head(tokens)) # eq THEN 0
  ELSE 1 + RunLength(Tail(tokens), eq)

\* diff_cleanupMerge: no empty span, neighbouring equalities are one span,
\* the edits between two equalities are one deletion followed by one insertion.
RECURSIVE Regroup(_)
Regroup(tokens) ==
  IF tokens = <<>> THEN <<>>
  ELSE LET eq == IsEqualToken(Head(tokens))
           n == RunLength(tokens, eq)
           run == SubSeq(tokens, 1, n)
           rest == Regroup(SubSeq(tokens, n + 1, Len(tokens)))
           dels == CharsOf(SelectSeq(run, IsDeleteToken))
           ins == CharsOf(SelectSeq(run, IsInsertToken))
       IN IF eq THEN <<Span(0, CharsOf(run))>> \o rest
          ELSE (IF dels = <<>> THEN <<>> ELSE <<Span(-1, dels)>>)
               \o (IF ins = <<>> THEN <<>> ELSE <<Span(1, ins)>>)
               \o rest
CleanupMerge(diffs) == Regroup(Tokens(diffs))

\* First place where `short` occurs in `long`, 0 if none (indexOf).
IndexIn(long, short) ==
  LET places == {i \in 1..(Len(long) - Len(short) + 1) :
                   SubSeq(long, i, i + Len(short) - 1) = short}
  IN IF places = {} THEN 0 ELSE CHOOSE i \in places : \A j \in places : i <= j

\* The edit script of two texts as spans of one character each.
CharScript(s, t) ==
  LET script == EditScript(s, t)
  IN [i \in DOMAIN script |->
        Span(IF script[i].op = "added" THEN 1
             ELSE IF script[i].op = "removed" THEN -1 ELSE 0,
             <<script[i].line>>)]

\* diff_compute_: texts with no common prefix or suffix
DiffCompute(s, t) ==
  IF s = <<>> THEN <<Span(1, t)>>
  ELSE IF t = <<>> THEN <<Span(-1, s)>>
  ELSE LET long == IF Len(s) > Len(t) THEN s ELSE t
           short == IF Len(s) > Len(t) THEN t ELSE s
           op == IF Len(s) > Len(t) THEN -1 ELSE 1
           i == IndexIn(long, short)
       IN IF i # 0
          THEN <<Span(op, SubSeq(long, 1, i - 1)), Span(0, short),
                 Span(op, SubSeq(long, i + Len(short), Len(long)))>>
          ELSE IF Len(short) = 1 THEN <<Span(-1, s), Span(1, t)>>
          ELSE CharScript(s, t)

\* dmp.diff_main(text1, text2)
DiffMainReplaceAll(s, t) ==
  IF s = <<>> /\ t = <<>> THEN <<>> ELSE <<Span(-1, s), Span(1, t)>>
DiffMain(s, t) ==
  IF s = t THEN (IF s = <<>> THEN <<>> ELSE <<Span(0, s)>>)
  ELSE LET p == CommonPrefix(s, t)
           s1 == SubSeq(s, p + 1, Len(s))
           t1 == SubSeq(t, p + 1, Len(t))
           q == CommonSuffix(s1, t1)
       IN CleanupMerge(<<Span(0, SubSeq(s, 1, p))>>
                       \o DiffCompute(SubSeq(s1, 1, Len(s1) - q),
                                      SubSeq(t1, 1, Len(t1) - q))
                       \o <<Span(0, SubSeq(s1, Len(s1) - q + 1, Len(s1)))>>)

\* Size of the larger of the deletion and the insertion next to span i, on
\* the side `step` (-1: before, 1: after), up to the next equality.
RECURSIVE EditsBeside(_, _, _)
EditsBeside(diffs, i, step) ==
  LET j == i + step
  IN IF j \notin DOMAIN diffs \/ diffs[j].op = 0 THEN [del |-> 0, ins |-> 0]
     ELSE LET more == EditsBeside(diffs, j, step)
          IN IF diffs[j].op = -1
             THEN [more EXCEPT !.del = @ + Len(diffs[j].text)]
             ELSE [more EXCEPT !.ins = @ + Len(diffs[j].text)]
LargerEdit(diffs, i, step) ==
  Max(EditsBeside(diffs, i, step).del, EditsBeside(diffs, i, step).ins)

\* dmp.diff_cleanupSemantic(diffs): an equality no longer than the edits on
\* both of its sides becomes a deletion and an insertion of its text.
Eliminated(diffs, i) ==
  /\ diffs[i].op = 0
  /\ Len(diffs[i].text) <= LargerEdit(diffs, i, -1)
  /\ Len(diffs[i].text) <= LargerEdit(diffs, i, 1)
RECURSIVE Eliminate(_, _)
Eliminate(diffs, i) ==
  IF i > Len(diffs) THEN <<>>
  ELSE (IF Eliminated(diffs, i)
        THEN <<Span(-1, diffs[i].text), Span(1, diffs[i].text)>>
        ELSE <<diffs[i]>>)
       \o Eliminate(diffs, i + 1)
CleanupSemantic(diffs) == CleanupMerge(Eliminate(diffs, 1))

\* diff[1].replace(/\r\n/g, "\n")
RECURSIVE CrLfToLf(_)
CrLfToLf(text) ==
  IF text = <<>> THEN <<>>
  ELSE IF Len(text) >= 2 /\ text[1] = "\r" /\ text[2] = "\n"
       THEN <<"\n">> \o CrLfToLf(SubSeq(text, 3, Len(text)))
       ELSE <<Head(text)>> \o CrLfToLf(Tail(text))

\* text.split("\n").length - 1
NewLinesOffByOne(text) == Cardinality({i \in DOMAIN text : text[i] = "\n"}) + 1
RECURSIVE NewLines(_)
NewLines(text) ==
  IF text = <<>> THEN 0
  ELSE (IF Head(text) = "\n" THEN 1 ELSE 0) + NewLines(Tail(text))

\* The forEach over the spans: newlines of the spans of one kind.
RECURSIVE CountLines(_, _)
CountLines(diffs, op) ==
  IF diffs = <<>> THEN 0
  ELSE (IF Head(diffs).op = op THEN NewLines(Head(diffs).text) ELSE 0)
       + CountLines(Tail(diffs), op)

\* loader, lines 40-61 (action, lines 129-154): both contents are strings
DirectDiffResponse(sourceContent, targetContent) ==
  LET diffs == CleanupSemantic(DiffMain(sourceContent, targetContent))
      additions == CountLines(diffs, 1)
      deletions == CountLines(diffs, -1)
  IN [kind |-> "json",
      sourceContent |-> sourceContent,
      targetContent |-> targetContent,
      diffs |-> [i \in DOMAIN diffs |-> Span(diffs[i].op, CrLfToLf(diffs[i].text))],
      stats |-> [additions |-> additions, deletions |-> deletions,
                 linesChanged |-> additions + deletions]]

\* A request with sourceContent and targetContent is answered.
DirectDiff ==
  /\ RLRests /\ ScanRests /\ ClientRests /\ EntryRests /\ HistoryRests /\ HandleRests
  /\ compareResponse.kind = "none"
  /\ compareResponse' = DirectDiffResponse(compareRequest.sourceContent,
                                           compareRequest.targetContent)
  /\ UNCHANGED compareRequest

(***************************************************************************)
(* Part 5: the compare route as a whole. Two sources define it:            *)
(* src/unnamed/part_000 (lines 162-346), whose remote calls go through the *)
(* RateLimiter, and src/app/routes/api.compare.tsx, which calls fetch      *)
(* itself. A request names the source that serves it.                      *)
(***************************************************************************)
Routes == {"part_000", "api.compare"}

\* null: a parameter that was not given, an asset without a value
Null == <<"null">>

\* Bodies a theme file may have.
FooBar == <<"f", "o", "o", "\n", "b", "a", "r", "\n">>
FooBaz == <<"f", "o", "o", "\n", "b", "a", "z", "\n">>
TrailingBlank == <<"a", " ", "\r", "\n">>
FileBodies == {FooBar, FooBaz, TrailingBlank}

\* What the store answers to the request for one asset: the status and
\* data.asset.value, which is empty for an asset without a value. A theme
\* that does not hold the file answers 404. The answers are final ones:
\* the RateLimiter has retried a 429 by then.
RemoteAnswers ==
  {[status |-> 200, value |-> v] : v \in FileBodies \cup {<<>>}}
  \cup {[status |-> st, value |-> <<>>] : st \in {404, 500}}

EntryRequests ==
  [route : Routes, method : {"GET", "POST"},
   sourceContent : FileBodies \cup {<<>>, Null},
   targetContent : FileBodies \cup {<<>>, Null},
   hasParams : BOOLEAN, allowedFile : BOOLEAN, authThrows : BOOLEAN]
NoEntryRequest ==
  [route |-> "part_000", method |-> "GET", sourceContent |-> Null,
   targetContent |-> Null, hasParams |-> FALSE, allowedFile |-> FALSE,
   authThrows |-> FALSE]

NoStats == [additions |-> 0, deletions |-> 0, linesChanged |-> 0]
NoEntryResponse ==
  [kind |-> "none", status |-> 0, fields |-> {}, sourceContent |-> <<>>,
   targetContent |-> <<>>, diffs |-> <<>>, stats |-> NoStats]
\* json({ error: ... }, { status })
EntryError(status) ==
  [NoEntryResponse EXCEPT !.kind = "json", !.status = status, !.fields = {"error"}]
\* json({ success: true })
EntrySuccess ==
  [NoEntryResponse EXCEPT !.kind = "json", !.status = 200, !.fields = {"success"}]
\* the loader throws: authenticate.admin's redirect, or a rejected remote call
EntryThrows(status) == [NoEntryResponse EXCEPT !.kind = "thrown", !.status = status]

NotCalled == [state |-> "none", value |-> Null, status |-> 0]
Called == [state |-> "pending", value |-> Null, status |-> 0]

\* getThemeFileContent: part_000 lines 165-202, api.compare.tsx lines 7-33
GetThemeFileContent(route, answer) ==
  IF route = "part_000"
  THEN IF answer.status # 200
       THEN [state |-> "rejected", value |-> Null, status |-> answer.status]
       ELSE [state |-> "fulfilled",
             value |-> IF answer.value = <<>> THEN Null ELSE answer.value,
             status |-> answer.status]
  ELSE [state |-> "fulfilled",
        value |-> IF answer.status # 200 THEN Null ELSE answer.value,
        status |-> answer.status]

\* typeof sourceContent === "string" && typeof targetContent === "string"
BothSuppliedNever(sourceContent, targetContent) == FALSE
BothSupplied(sourceContent, targetContent) ==
  sourceContent # Null /\ targetContent # Null

\* .replace(/[ \t]+$/gm, ""): blanks before a line terminator or the end go
Blanks(text) ==
  IF \A i \in DOMAIN text : text[i] \in {" ", "\t"} THEN Len(text)
  ELSE (CHOOSE i \in DOMAIN text :
          /\ text[i] \notin {" ", "\t"}
          /\ \A j \in 1..(i - 1) : text[j] \in {" ", "\t"}) - 1
RECURSIVE TrimTrailing(_)
TrimTrailing(text) ==
  IF text = <<>> THEN <<>>
  ELSE LET n == Blanks(text)
           rest == SubSeq(text, n + 1, Len(text))
       IN IF n = 0 THEN <<Head(text)>> \o TrimTrailing(Tail(text))
          ELSE IF rest = <<>> \/ Head(rest) \in {"\n", "\r"} THEN TrimTrailing(rest)
          ELSE SubSeq(text, 1, n) \o TrimTrailing(rest)

\* part_000 lines 278-283
Normalize(text) == TrimTrailing(CrLfToLf(text))

\* The four fields of a diff report.
DiffFields == {"sourceContent", "targetContent", "diffs", "stats"}

\* The direct path: part_000 lines 207-230 and 309-334, api.compare.tsx
\* lines 38-61 and 129-154
DirectEntryResponse(sourceContent, targetContent) ==
  LET r == DirectDiffResponse(sourceContent, targetContent)
  IN [kind |-> "json", status |-> 200, fields |-> DiffFields,
      sourceContent |-> r.sourceContent, targetContent |-> r.targetContent,
      diffs |-> r.diffs, stats |-> r.stats]

\* The per-file path once both calls have returned: part_000 lines 268-303,
\* api.compare.tsx lines 90-123
PerFileResponse(route, sourceContentShopify, targetContentShopify) ==
  IF sourceContentShopify = Null /\ targetContentShopify = Null
  THEN EntryError(404)
  ELSE LET s0 == IF sourceContentShopify = Null THEN <<>> ELSE sourceContentShopify
           t0 == IF targetContentShopify = Null THEN <<>> ELSE targetContentShopify
           normSource == IF route = "part_000" THEN Normalize(s0) ELSE s0
           normTarget == IF route = "part_000" THEN Normalize(t0) ELSE t0
           diffs == CleanupSemantic(DiffMain(normSource, normTarget))
           additions == CountLines(diffs, 1)
           deletions == CountLines(diffs, -1)
       IN [kind |-> "json", status |-> 200, fields |-> DiffFields,
           sourceContent |-> normSource, targetContent |-> normTarget,
           diffs |-> IF route = "part_000" THEN diffs
                     ELSE [i \in DOMAIN diffs |->
                             Span(diffs[i].op, CrLfToLf(diffs[i].text))],
           stats |-> [additions |-> additions, deletions |-> deletions,
                      linesChanged |-> additions + deletions]]

\* The request arrives: the loader (GET) or the action (POST) runs up to
\* its answer, or up to await Promise.all of the two remote calls.
EntryStarts ==
  /\ RLRests /\ ScanRests /\ ClientRests /\ CompareRests /\ HistoryRests /\ HandleRests
  /\ entryPc = "idle"
  /\ IF BothSupplied(entryRequest.sourceContent, entryRequest.targetContent)
     THEN /\ entryResponse' = DirectEntryResponse(entryRequest.sourceContent,
                                                  entryRequest.targetContent)
          /\ entryPc' = "done"
          /\ UNCHANGED <<entryAuth, entryEnqueued, entryGot>>
     ELSE IF entryRequest.method = "POST"
     \* the action's fallback
     THEN /\ entryResponse' = EntrySuccess
          /\ entryPc' = "done"
          /\ UNCHANGED <<entryAuth, entryEnqueued, entryGot>>
     ELSE /\ entryAuth' = TRUE
          /\ IF entryRequest.authThrows
             THEN /\ entryResponse' = EntryThrows(302)
                  /\ entryPc' = "done"
                  /\ UNCHANGED <<entryEnqueued, entryGot>>
             ELSE IF ~entryRequest.hasParams
             THEN /\ entryResponse' = EntryError(400)
                  /\ entryPc' = "done"
                  /\ UNCHANGED <<entryEnqueued, entryGot>>
             ELSE IF entryRequest.route = "part_000" /\ ~entryRequest.allowedFile
             THEN /\ entryResponse' = EntryError(400)
                  /\ entryPc' = "done"
                  /\ UNCHANGED <<entryEnqueued, entryGot>>
             ELSE /\ entryGot' = [side \in Sides |-> Called]
                  /\ entryEnqueued' = IF entryRequest.route = "part_000" THEN 2 ELSE 0
                  /\ entryPc' = "fetching"
                  /\ UNCHANGED entryResponse
  /\ UNCHANGED entryRequest

\* One of the two getThemeFileContent calls settles; Promise.all rejects with
\* the first rejection, and resolves when both calls have.
EntrySettles(side, answer) ==
  /\ RLRests /\ ScanRests /\ ClientRests /\ CompareRests /\ HistoryRests /\ HandleRests
  /\ entryGot[side].state = "pending"
  /\ LET g == [entryGot EXCEPT ![side] = GetThemeFileContent(entryRequest.route, answer)]
     IN /\ entryGot' = g
        /\ IF entryPc # "fetching"
           THEN UNCHANGED <<entryPc, entryResponse>>
           ELSE IF g[side].state = "rejected"
           THEN /\ entryResponse' = EntryThrows(500)
                /\ entryPc' = "done"
           ELSE IF \A sd \in Sides : g[sd].state = "fulfilled"
           THEN /\ entryResponse' = PerFileResponse(entryRequest.route,
                                                   g["source"].value, g["target"].value)
                /\ entryPc' = "done"
           ELSE UNCHANGED <<entryPc, entryResponse>>
  /\ UNCHANGED <<entryRequest, entryAuth, entryEnqueued>>

EntryNext ==
  \/ EntryStarts
  \/ \E side \in Sides, answer \in RemoteAnswers : EntrySettles(side, answer)

(***************************************************************************)
(* Part 6: the comparison history (src/unnamed/part_000, lines 1-92) and   *)
(* the two tables behind it. A list request is one query; a DELETE is two  *)
(* queries, each awaited, with no transaction around them.                 *)
(***************************************************************************)
ComparisonIds == 1..MaxComparisons
\* The ids a request may name: the last one matches no record.
RequestIds == 1..(MaxComparisons + 1)
NoId == 0
Shops == {"shop-a", "shop-b"}
FileNames == {"a.json", "b.liquid"}

\* The stores the requests may find: ids are unique, every child row
\* belongs to a record.
Stores ==
  {st \in [comparisons : SUBSET [id : ComparisonIds, shop : Shops],
           results : SUBSET [comparisonId : ComparisonIds, fileName : FileNames]] :
     /\ \A c1, c2 \in st.comparisons : c1.id = c2.id => c1 = c2
     /\ \A row \in st.results : \E c \in st.comparisons : c.id = row.comparisonId}

NoDelete == [shop |-> "", id |-> NoId]
NoDeleteResponse == [kind |-> "none", status |-> 0, error |-> ""]
NotListedYet == [shop |-> "", records |-> {}]

\* include: { results: ... }: the child rows of one record
ResultsOf(rows, id) == {row.fileName : row \in {r \in rows : r.comparisonId = id}}

\* loader, lines 6-25: findMany where shop, with the results of each record
ListComparisons(shop) ==
  /\ RLRests /\ ScanRests /\ ClientRests /\ CompareRests /\ EntryRests /\ HandleRests
  /\ listed' = [shop |-> shop,
                records |-> {[id |-> c.id, shop |-> c.shop,
                              results |-> ResultsOf(results, c.id)] :
                             c \in {x \in comparisons : x.shop = shop}}]
  /\ UNCHANGED <<comparisons, results, saved, deleteRequest, deletePc, deleteResponse>>

\* action, lines 27-82: a DELETE arrives; without an id it is refused, with
\* one the deleteMany of the child rows is issued
DeleteStarts(shop, id) ==
  /\ RLRests /\ ScanRests /\ ClientRests /\ CompareRests /\ EntryRests /\ HandleRests
  /\ deletePc = "idle"
  /\ deleteRequest' = [shop |-> shop, id |-> id]
  /\ IF id = NoId
     THEN /\ deleteResponse' = [kind |-> "json", status |-> 400, error |-> "Missing comparison ID"]
          /\ deletePc' = "done"
     ELSE /\ deletePc' = "deleteMany"
          /\ UNCHANGED deleteResponse
  /\ UNCHANGED <<comparisons, results, saved, listed>>

\* lines 80-86: deleteMany has run, the delete of the record is issued
DeleteChildren ==
  /\ RLRests /\ ScanRests /\ ClientRests /\ CompareRests /\ EntryRests /\ HandleRests
  /\ deletePc = "deleteMany"
  /\ results' = {row \in results : row.comparisonId # deleteRequest.id}
  /\ deletePc' = "delete"
  /\ UNCHANGED <<comparisons, saved, deleteRequest, deleteResponse, listed>>

\* lines 84-88: the delete of the record runs (it throws when no record has
\* the id), or the database fails before it does
DeleteParent(ok) ==
  /\ RLRests /\ ScanRests /\ ClientRests /\ CompareRests /\ EntryRests /\ HandleRests
  /\ deletePc = "delete"
  /\ deletePc' = "done"
  /\ IF ~ok
     THEN /\ deleteResponse' = [kind |-> "thrown", status |-> 500, error |-> "database"]
          /\ UNCHANGED comparisons
     ELSE IF \E c \in comparisons : c.id = deleteRequest.id
     THEN /\ comparisons' = {c \in comparisons : c.id # deleteRequest.id}
          /\ deleteResponse' = [kind |-> "json", status |-> 200, error |-> ""]
     ELSE /\ deleteResponse' = [kind |-> "thrown", status |-> 500,
                                error |-> "Record to delete does not exist"]
          /\ UNCHANGED comparisons
  /\ UNCHANGED <<results, saved, deleteRequest, listed>>

HistoryNext ==
  \/ \E shop \in Shops : ListComparisons(shop)
  \/ \E shop \in Shops, id \in RequestIds \cup {NoId} : DeleteStarts(shop, id)
  \/ DeleteChildren
  \/ \E ok \in BOOLEAN : DeleteParent(ok)

(***************************************************************************)
(* Part 7: handleCompare of the page (app.theme.diff.tsx, lines 45-215)    *)
(* and the POST of the history route (part_000, lines 31-69). The stream   *)
(* is read an event at a time here; how the bytes are cut is Part 3.       *)
(***************************************************************************)
\* The page at rest: useState initial values, both themes chosen.
RestingUi ==
  [themes |-> TRUE, loading |-> FALSE, error |-> "", files |-> <<>>,
   selectedFile |-> NoKey, diffContents |-> [isNull |-> TRUE, map |-> EmptyMap],
   totalFiles |-> 0, scannedFiles |-> 0, diffedFiles |-> 0,
   currentStage |-> "idle", currentFile |-> NoKey]

NoBody == [events |-> <<>>, ends |-> "none"]
NotCreated == [kind |-> "none", differences |-> 0, files |-> <<>>, results |-> {}]

\* The streams of the scans of a theme pair with the key a.json, a.json and
\* b.liquid, or no key in both listings, as api.scan.tsx emits them.
FileA == KeyUniverse[1]
FileB == KeyUniverse[2]
EntryOf(key) == key :> DiffEntry(<<"foo\n">>, <<"bar\n">>, diffLines(<<"foo\n">>, <<"bar\n">>))
ScanStreams ==
  { <<InitialEvent(0), FinalEvent(<<>>, EmptyMap, 0, 0)>>,
    <<InitialEvent(1), ScanningEvent(FileA, 0), DiffingEvent(FileA, 1, 1, TRUE),
      FinalEvent(<<FileA>>, EntryOf(FileA), 1, 1)>>,
    <<InitialEvent(1), ScanningEvent(FileA, 0), DiffingEvent(FileA, 1, 0, FALSE),
      FinalEvent(<<>>, EmptyMap, 1, 1)>>,
    <<InitialEvent(1), ScanningEvent(FileA, 0), ErrorEvent(FileA, 1),
      FinalEvent(<<>>, EmptyMap, 1, 1)>>,
    <<InitialEvent(2), ScanningEvent(FileA, 0), DiffingEvent(FileA, 1, 1, TRUE),
      DiffingEvent(FileB, 2, 2, TRUE),
      FinalEvent(<<FileA, FileB>>, EntryOf(FileA) @@ EntryOf(FileB), 2, 2)>> }

\* What reader.read() delivers of a stream: all of it and a close, or a part
\* of it and then a close or an error (the connection drops, or the loader
\* calls controller.error).
Bodies7 ==
  {[events |-> stream, ends |-> "closed"] : stream \in ScanStreams}
  \cup UNION {{[events |-> SubSeq(stream, 1, n), ends |-> e] :
                  n \in 0..(Len(stream) - 1), e \in {"closed", "errored"}} :
                stream \in ScanStreams}

\* How the count request ends: fetch or json() rejects, a response that is
\* not ok, one with an error field, one without a number, one with a count.
CountAnswers == {"rejects", "not ok", "error", "no count", "count"}
\* How the stream request ends before its body is read.
StreamAnswers == {"rejects", "not ok", "no body", "ok"}

\* data.<name>, undefined (no value) where the object has no such field
Field(data, name) == IF name \in DOMAIN data THEN <<data[name]>> ELSE <<>>

\* lines 51-59: the setters before the try
Started(u) ==
  [u EXCEPT !.loading = TRUE, !.error = "", !.files = <<>>,
            !.selectedFile = NoKey, !.totalFiles = 0, !.scannedFiles = 0,
            !.diffedFiles = 0, !.currentStage = "scanning", !.currentFile = NoKey]

\* lines 97-115: processProgressUpdate(data)
ProcessProgressUpdate(u, data) ==
  LET u1 == IF data.scannedFiles # -1
            THEN [u EXCEPT !.scannedFiles = data.scannedFiles] ELSE u
      u2 == IF data.diffedFiles # -1
            THEN [u1 EXCEPT !.diffedFiles = data.diffedFiles] ELSE u1
      u3 == IF data.currentFile # NoKey
            THEN [u2 EXCEPT !.currentFile = data.currentFile] ELSE u2
      u4 == IF data.stage # "" THEN [u3 EXCEPT !.currentStage = data.stage] ELSE u3
  IN IF data.done THEN [u4 EXCEPT !.currentStage = "idle", !.loading = FALSE] ELSE u4

\* lines 199-214: the catch, then the finally
CaughtKeepsLoading(u, message) ==
  [u EXCEPT !.error = message, !.currentStage = "idle",
            !.diffContents = [isNull |-> TRUE, map |-> EmptyMap],
            !.files = <<>>, !.currentFile = NoKey]
Caught(u, message) ==
  [u EXCEPT !.error = message, !.currentStage = "idle", !.loading = FALSE,
            !.diffContents = [isNull |-> TRUE, map |-> EmptyMap],
            !.files = <<>>, !.currentFile = NoKey]

\* lines 156-181: updates(), run once or twice, then the finally
Completed(u, data) ==
  [u EXCEPT !.files = data.files,
            !.diffContents = [isNull |-> FALSE, map |-> data.diffContents],
            !.loading = FALSE, !.currentStage = "idle",
            !.selectedFile = IF Len(data.files) > 0 THEN data.files[1] ELSE @,
            !.error = IF data.error # NoKey THEN "scan error" ELSE @,
            !.currentFile = NoKey]

\* lines 184-197: the body of the POST
HistoryBody(data) ==
  [differences |-> Field(data, "differentFiles"), files |-> data.files,
   diffContents |-> data.diffContents]

\* "differences" INTEGER NOT NULL DEFAULT 0
DefaultDifferences == 0

\* part_000, lines 35-66: themeComparison.create with the fields of the body;
\* a field that is undefined is left to the column's default.
Create(histBody) ==
  [kind |-> "record",
   differences |-> IF histBody.differences = <<>> THEN DefaultDifferences
                   ELSE histBody.differences[1],
   files |-> histBody.files,
   results |-> DOMAIN histBody.diffContents]

\* handleCompare is called.
HandleCompareStarts ==
  /\ RLRests /\ ScanRests /\ ClientRests /\ CompareRests /\ EntryRests /\ HistoryRests
  /\ hcPc = "idle"
  /\ IF ui.themes
     THEN /\ ui' = Started(ui)
          /\ hcPc' = "counting"
     ELSE /\ ui' = [ui EXCEPT !.error = "Please select both themes to compare"]
          /\ hcPc' = "returned"
  /\ UNCHANGED <<hcBody, hcFinal, posted, created>>

\* lines 66-79: the count request ends.
CountSettles(answer, totalFileCount) ==
  /\ RLRests /\ ScanRests /\ ClientRests /\ CompareRests /\ EntryRests /\ HistoryRests
  /\ hcPc = "counting"
  /\ IF answer = "count"
     THEN /\ ui' = [ui EXCEPT !.totalFiles = totalFileCount]
          /\ hcPc' = "fetching"
     ELSE /\ ui' = Caught(ui, answer)
          /\ hcPc' = "returned"
  /\ UNCHANGED <<hcBody, hcFinal, posted, created>>

\* lines 82-91: the stream request ends; its body is `arriving`.
StreamResponds(answer, arriving) ==
  /\ RLRests /\ ScanRests /\ ClientRests /\ CompareRests /\ EntryRests /\ HistoryRests
  /\ hcPc = "fetching"
  /\ IF answer = "ok"
     THEN /\ hcBody' = arriving
          /\ hcPc' = "reading"
          /\ UNCHANGED ui
     ELSE /\ ui' = Caught(ui, IF answer = "no body"
                              THEN "No final data received from server"
                              ELSE answer)
          /\ hcPc' = "returned"
          /\ UNCHANGED hcBody
  /\ UNCHANGED <<hcFinal, posted, created>>

\* lines 117-137: a turn of the while loop that brings an event.
ReadEvent ==
  /\ RLRests /\ ScanRests /\ ClientRests /\ CompareRests /\ EntryRests /\ HistoryRests
  /\ hcPc = "reading"
  /\ hcBody.events # <<>>
  /\ LET data == Head(hcBody.events)
     IN /\ ui' = ProcessProgressUpdate(ui, data)
        /\ hcFinal' = IF data.done THEN data ELSE hcFinal
  /\ hcBody' = [hcBody EXCEPT !.events = Tail(@)]
  /\ UNCHANGED <<hcPc, posted, created>>

\* lines 118-119, 152-214: reader.read() gives done or rejects; the rest of
\* handleCompare runs to its return.
ReadEnds ==
  /\ RLRests /\ ScanRests /\ ClientRests /\ CompareRests /\ EntryRests /\ HistoryRests
  /\ hcPc = "reading"
  /\ hcBody.events = <<>>
  /\ IF hcBody.ends = "errored"
     THEN /\ ui' = Caught(ui, "stream error")
          /\ UNCHANGED posted
     ELSE IF ~hcFinal.done
     THEN /\ ui' = Caught(ui, "No final data received from server")
          /\ UNCHANGED posted
     ELSE /\ ui' = Completed(ui, hcFinal)
          /\ posted' = IF hcFinal.error = NoKey
                       THEN Append(posted, HistoryBody(hcFinal)) ELSE posted
  /\ hcPc' = "returned"
  /\ UNCHANGED <<hcBody, hcFinal, created>>

\* part_000, lines 31-69: the history route serves the POST; the create
\* succeeds or throws.
HistoryPost(ok) ==
  /\ RLRests /\ ScanRests /\ ClientRests /\ CompareRests /\ EntryRests /\ HistoryRests
  /\ posted # <<>>
  /\ created.kind = "none"
  /\ created' = IF ok THEN Create(posted[1])
                ELSE [NotCreated EXCEPT !.kind = "error"]
  /\ UNCHANGED <<hcPc, ui, hcBody, hcFinal, posted>>

HandleNext ==
  \/ HandleCompareStarts
  \/ \E answer \in CountAnswers, n \in 0..2 : CountSettles(answer, n)
  \/ \E answer \in StreamAnswers, arriving \in Bodies7 : StreamResponds(answer, arriving)
  \/ ReadEvent
  \/ ReadEnds
  \/ \E ok \in BOOLEAN : HistoryPost(ok)

(***************************************************************************)
(* Specifications. Each follows one component; the others rest.            *)
(***************************************************************************)
RLNext(maxTasks, step, maxTicks) ==
  \/ Enqueue(maxTasks)
  \/ \E l \in Loops : WaitElapsed(l)
  \/ \E l \in Loops, s \in Statuses : TaskSettles(l, s)
  \/ \E l \in Loops : BackoffElapsed(l)
  \/ \E l \in Loops : LoopResumes(l)
  \/ Tick(step, maxTicks)

\* The RateLimiter on a clock that never stops short of a pending timer.
LiveNext ==
  \/ RLNext(MaxLiveTasks, minRequestInterval, MaxLiveTicks)
  \/ \E l \in Loops : TimerDue(l)

\* A step of the limiter itself: a timer fires, a task body ends, a
\* continuation runs.
LimiterStep ==
  \E l \in Loops :
    \/ TimerDue(l)
    \/ WaitElapsed(l)
    \/ \E s \in Statuses : TaskSettles(l, s)
    \/ BackoffElapsed(l)
    \/ LoopResumes(l)

\* While the limiter has a step to take, it takes one in the end: timers
\* fire, task bodies end, continuations run.
LiveFairness == WF_vars(LimiterStep)

\* new RateLimiter(), and no scan request yet.
Init ==
  /\ queue = <<>>
  /\ processing = FALSE
  /\ lastRequestTime = 0
  /\ now = StartTime
  /\ loops = [l \in Loops |-> IdleLoop]
  /\ enqueued = 0
  /\ result = [t \in Tasks |-> NotEnqueued]
  /\ outcomes = [t \in Tasks |-> <<>>]
  /\ backoffs = [t \in Tasks |-> <<>>]
  /\ invocations = <<>>
  /\ request = NoRequest
  /\ scanPc = "idle"
  /\ inFlight = {}
  /\ assets = [side \in Sides |-> NotListed]
  /\ filesInBoth = <<>>
  /\ filteredFilesInBoth = <<>>
  /\ response = NoResponse
  /\ streamState = "none"
  /\ events = <<>>
  /\ idx = 0
  /\ got = [side \in Sides |-> NotFetched]
  /\ contents = NoContents
  /\ scanned = 0
  /\ diffed = 0
  /\ differentFiles = <<>>
  /\ diffContents = EmptyMap
  /\ contentFetches = <<>>
  /\ failedKeys = {}
  /\ emitted = <<>>
  /\ unread = <<>>
  /\ decoder = <<>>
  /\ buffer = <<>>
  /\ updates = <<>>
  /\ finalData = NoData
  /\ clientPc = "idle"
  /\ cuts = {}
  /\ compareRequest = NoTexts
  /\ compareResponse = NoCompare
  /\ entryRequest = NoEntryRequest
  /\ entryPc = "idle"
  /\ entryAuth = FALSE
  /\ entryEnqueued = 0
  /\ entryGot = [side \in Sides |-> NotCalled]
  /\ entryResponse = NoEntryResponse
  /\ comparisons = {}
  /\ results = {}
  /\ saved = [comparisons |-> {}, results |-> {}]
  /\ deleteRequest = NoDelete
  /\ deletePc = "idle"
  /\ deleteResponse = NoDeleteResponse
  /\ listed = NotListedYet
  /\ hcPc = "idle"
  /\ ui = RestingUi
  /\ hcBody = NoBody
  /\ hcFinal = BlankEvent
  /\ posted = <<>>
  /\ created = NotCreated

\* A request arrives at the scan loader; the RateLimiter is as constructed.
ScanInit ==
  /\ queue = <<>>
  /\ processing = FALSE
  /\ lastRequestTime = 0
  /\ now = StartTime
  /\ loops = [l \in Loops |-> IdleLoop]
  /\ enqueued = 0
  /\ result = [t \in Tasks |-> NotEnqueued]
  /\ outcomes = [t \in Tasks |-> <<>>]
  /\ backoffs = [t \in Tasks |-> <<>>]
  /\ invocations = <<>>
  /\ request \in Requests
  /\ scanPc = "idle"
  /\ inFlight = {}
  /\ assets = [side \in Sides |-> NotListed]
  /\ filesInBoth = <<>>
  /\ filteredFilesInBoth = <<>>
  /\ response = NoResponse
  /\ streamState = "none"
  /\ events = <<>>
  /\ idx = 0
  /\ got = [side \in Sides |-> NotFetched]
  /\ contents = NoContents
  /\ scanned = 0
  /\ diffed = 0
  /\ differentFiles = <<>>
  /\ diffContents = EmptyMap
  /\ contentFetches = <<>>
  /\ failedKeys = {}
  /\ emitted = <<>>
  /\ unread = <<>>
  /\ decoder = <<>>
  /\ buffer = <<>>
  /\ updates = <<>>
  /\ finalData = NoData
  /\ clientPc = "idle"
  /\ cuts = {}
  /\ compareRequest = NoTexts
  /\ compareResponse = NoCompare
  /\ entryRequest = NoEntryRequest
  /\ entryPc = "idle"
  /\ entryAuth = FALSE
  /\ entryEnqueued = 0
  /\ entryGot = [side \in Sides |-> NotCalled]
  /\ entryResponse = NoEntryResponse
  /\ comparisons = {}
  /\ results = {}
  /\ saved = [comparisons |-> {}, results |-> {}]
  /\ deleteRequest = NoDelete
  /\ deletePc = "idle"
  /\ deleteResponse = NoDeleteResponse
  /\ listed = NotListedYet
  /\ hcPc = "idle"
  /\ ui = RestingUi
  /\ hcBody = NoBody
  /\ hcFinal = BlankEvent
  /\ posted = <<>>
  /\ created = NotCreated

\* A streaming scan is requested by an authenticated session.
LongScanInit ==
  /\ queue = <<>>
  /\ processing = FALSE
  /\ lastRequestTime = 0
  /\ now = StartTime
  /\ loops = [l \in Loops |-> IdleLoop]
  /\ enqueued = 0
  /\ result = [t \in Tasks |-> NotEnqueued]
  /\ outcomes = [t \in Tasks |-> <<>>]
  /\ backoffs = [t \in Tasks |-> <<>>]
  /\ invocations = <<>>
  /\ request = StreamRequest
  /\ scanPc = "idle"
  /\ inFlight = {}
  /\ assets = [side \in Sides |-> NotListed]
  /\ filesInBoth = <<>>
  /\ filteredFilesInBoth = <<>>
  /\ response = NoResponse
  /\ streamState = "none"
  /\ events = <<>>
  /\ idx = 0
  /\ got = [side \in Sides |-> NotFetched]
  /\ contents = NoContents
  /\ scanned = 0
  /\ diffed = 0
  /\ differentFiles = <<>>
  /\ diffContents = EmptyMap
  /\ contentFetches = <<>>
  /\ failedKeys = {}
  /\ emitted = <<>>
  /\ unread = <<>>
  /\ decoder = <<>>
  /\ buffer = <<>>
  /\ updates = <<>>
  /\ finalData = NoData
  /\ clientPc = "idle"
  /\ cuts = {}
  /\ compareRequest = NoTexts
  /\ compareResponse = NoCompare
  /\ entryRequest = NoEntryRequest
  /\ entryPc = "idle"
  /\ entryAuth = FALSE
  /\ entryEnqueued = 0
  /\ entryGot = [side \in Sides |-> NotCalled]
  /\ entryResponse = NoEntryResponse
  /\ comparisons = {}
  /\ results = {}
  /\ saved = [comparisons |-> {}, results |-> {}]
  /\ deleteRequest = NoDelete
  /\ deletePc = "idle"
  /\ deleteResponse = NoDeleteResponse
  /\ listed = NotListedYet
  /\ hcPc = "idle"
  /\ ui = RestingUi
  /\ hcBody = NoBody
  /\ hcFinal = BlankEvent
  /\ posted = <<>>
  /\ created = NotCreated

\* Both listing calls of a scan have returned; nothing else has happened.
ReconcileInit ==
  /\ queue = <<>>
  /\ processing = FALSE
  /\ lastRequestTime = 0
  /\ now = StartTime
  /\ loops = [l \in Loops |-> IdleLoop]
  /\ enqueued = 0
  /\ result = [t \in Tasks |-> NotEnqueued]
  /\ outcomes = [t \in Tasks |-> <<>>]
  /\ backoffs = [t \in Tasks |-> <<>>]
  /\ invocations = <<>>
  /\ request = NoRequest
  /\ scanPc = "listed"
  /\ inFlight = {}
  /\ assets \in [Sides -> {[state |-> "ok", listing |-> l] : l \in Listings}]
  /\ filesInBoth = <<>>
  /\ filteredFilesInBoth = <<>>
  /\ response = NoResponse
  /\ streamState = "none"
  /\ events = <<>>
  /\ idx = 0
  /\ got = [side \in Sides |-> NotFetched]
  /\ contents = NoContents
  /\ scanned = 0
  /\ diffed = 0
  /\ differentFiles = <<>>
  /\ diffContents = EmptyMap
  /\ contentFetches = <<>>
  /\ failedKeys = {}
  /\ emitted = <<>>
  /\ unread = <<>>
  /\ decoder = <<>>
  /\ buffer = <<>>
  /\ updates = <<>>
  /\ finalData = NoData
  /\ clientPc = "idle"
  /\ cuts = {}
  /\ compareRequest = NoTexts
  /\ compareResponse = NoCompare
  /\ entryRequest = NoEntryRequest
  /\ entryPc = "idle"
  /\ entryAuth = FALSE
  /\ entryEnqueued = 0
  /\ entryGot = [side \in Sides |-> NotCalled]
  /\ entryResponse = NoEntryResponse
  /\ comparisons = {}
  /\ results = {}
  /\ saved = [comparisons |-> {}, results |-> {}]
  /\ deleteRequest = NoDelete
  /\ deletePc = "idle"
  /\ deleteResponse = NoDeleteResponse
  /\ listed = NotListedYet
  /\ hcPc = "idle"
  /\ ui = RestingUi
  /\ hcBody = NoBody
  /\ hcFinal = BlankEvent
  /\ posted = <<>>
  /\ created = NotCreated

\* The response of a scan has arrived at the client: a stream to be read.
ClientInit ==
  /\ queue = <<>>
  /\ processing = FALSE
  /\ lastRequestTime = 0
  /\ now = StartTime
  /\ loops = [l \in Loops |-> IdleLoop]
  /\ enqueued = 0
  /\ result = [t \in Tasks |-> NotEnqueued]
  /\ outcomes = [t \in Tasks |-> <<>>]
  /\ backoffs = [t \in Tasks |-> <<>>]
  /\ invocations = <<>>
  /\ request = NoRequest
  /\ scanPc = "idle"
  /\ inFlight = {}
  /\ assets = [side \in Sides |-> NotListed]
  /\ filesInBoth = <<>>
  /\ filteredFilesInBoth = <<>>
  /\ response = NoResponse
  /\ streamState = "none"
  /\ events = <<>>
  /\ idx = 0
  /\ got = [side \in Sides |-> NotFetched]
  /\ contents = NoContents
  /\ scanned = 0
  /\ diffed = 0
  /\ differentFiles = <<>>
  /\ diffContents = EmptyMap
  /\ contentFetches = <<>>
  /\ failedKeys = {}
  /\ emitted \in Streams
  /\ unread = Wire(emitted)
  /\ decoder = <<>>
  /\ buffer = <<>>
  /\ updates = <<>>
  /\ finalData = NoData
  /\ clientPc = "reading"
  /\ cuts = {}
  /\ compareRequest = NoTexts
  /\ compareResponse = NoCompare
  /\ entryRequest = NoEntryRequest
  /\ entryPc = "idle"
  /\ entryAuth = FALSE
  /\ entryEnqueued = 0
  /\ entryGot = [side \in Sides |-> NotCalled]
  /\ entryResponse = NoEntryResponse
  /\ comparisons = {}
  /\ results = {}
  /\ saved = [comparisons |-> {}, results |-> {}]
  /\ deleteRequest = NoDelete
  /\ deletePc = "idle"
  /\ deleteResponse = NoDeleteResponse
  /\ listed = NotListedYet
  /\ hcPc = "idle"
  /\ ui = RestingUi
  /\ hcBody = NoBody
  /\ hcFinal = BlankEvent
  /\ posted = <<>>
  /\ created = NotCreated

\* A stream arrives at the client with one line that is not JSON in it,
\* before the final event.
MalformedInit ==
  /\ queue = <<>>
  /\ processing = FALSE
  /\ lastRequestTime = 0
  /\ now = StartTime
  /\ loops = [l \in Loops |-> IdleLoop]
  /\ enqueued = 0
  /\ result = [t \in Tasks |-> NotEnqueued]
  /\ outcomes = [t \in Tasks |-> <<>>]
  /\ backoffs = [t \in Tasks |-> <<>>]
  /\ invocations = <<>>
  /\ request = NoRequest
  /\ scanPc = "idle"
  /\ inFlight = {}
  /\ assets = [side \in Sides |-> NotListed]
  /\ filesInBoth = <<>>
  /\ filteredFilesInBoth = <<>>
  /\ response = NoResponse
  /\ streamState = "none"
  /\ events = <<>>
  /\ idx = 0
  /\ got = [side \in Sides |-> NotFetched]
  /\ contents = NoContents
  /\ scanned = 0
  /\ diffed = 0
  /\ differentFiles = <<>>
  /\ diffContents = EmptyMap
  /\ contentFetches = <<>>
  /\ failedKeys = {}
  /\ emitted \in Streams
  /\ unread \in {Inserted(emitted, at, junk) :
                   at \in 0..(Len(emitted) - 1), junk \in MalformedLines}
  /\ decoder = <<>>
  /\ buffer = <<>>
  /\ updates = <<>>
  /\ finalData = NoData
  /\ clientPc = "reading"
  /\ cuts = {}
  /\ compareRequest = NoTexts
  /\ compareResponse = NoCompare
  /\ entryRequest = NoEntryRequest
  /\ entryPc = "idle"
  /\ entryAuth = FALSE
  /\ entryEnqueued = 0
  /\ entryGot = [side \in Sides |-> NotCalled]
  /\ entryResponse = NoEntryResponse
  /\ comparisons = {}
  /\ results = {}
  /\ saved = [comparisons |-> {}, results |-> {}]
  /\ deleteRequest = NoDelete
  /\ deletePc = "idle"
  /\ deleteResponse = NoDeleteResponse
  /\ listed = NotListedYet
  /\ hcPc = "idle"
  /\ ui = RestingUi
  /\ hcBody = NoBody
  /\ hcFinal = BlankEvent
  /\ posted = <<>>
  /\ created = NotCreated

\* A request with two texts arrives at the compare route.
CompareInit ==
  /\ queue = <<>>
  /\ processing = FALSE
  /\ lastRequestTime = 0
  /\ now = StartTime
  /\ loops = [l \in Loops |-> IdleLoop]
  /\ enqueued = 0
  /\ result = [t \in Tasks |-> NotEnqueued]
  /\ outcomes = [t \in Tasks |-> <<>>]
  /\ backoffs = [t \in Tasks |-> <<>>]
  /\ invocations = <<>>
  /\ request = NoRequest
  /\ scanPc = "idle"
  /\ inFlight = {}
  /\ assets = [side \in Sides |-> NotListed]
  /\ filesInBoth = <<>>
  /\ filteredFilesInBoth = <<>>
  /\ response = NoResponse
  /\ streamState = "none"
  /\ events = <<>>
  /\ idx = 0
  /\ got = [side \in Sides |-> NotFetched]
  /\ contents = NoContents
  /\ scanned = 0
  /\ diffed = 0
  /\ differentFiles = <<>>
  /\ diffContents = EmptyMap
  /\ contentFetches = <<>>
  /\ failedKeys = {}
  /\ emitted = <<>>
  /\ unread = <<>>
  /\ decoder = <<>>
  /\ buffer = <<>>
  /\ updates = <<>>
  /\ finalData = NoData
  /\ clientPc = "idle"
  /\ cuts = {}
  /\ compareRequest \in [sourceContent : DiffTexts, targetContent : DiffTexts]
  /\ compareResponse = NoCompare
  /\ entryRequest = NoEntryRequest
  /\ entryPc = "idle"
  /\ entryAuth = FALSE
  /\ entryEnqueued = 0
  /\ entryGot = [side \in Sides |-> NotCalled]
  /\ entryResponse = NoEntryResponse
  /\ comparisons = {}
  /\ results = {}
  /\ saved = [comparisons |-> {}, results |-> {}]
  /\ deleteRequest = NoDelete
  /\ deletePc = "idle"
  /\ deleteResponse = NoDeleteResponse
  /\ listed = NotListedYet
  /\ hcPc = "idle"
  /\ ui = RestingUi
  /\ hcBody = NoBody
  /\ hcFinal = BlankEvent
  /\ posted = <<>>
  /\ created = NotCreated

\* A request to the compare route arrives.
EntryInit ==
  /\ queue = <<>>
  /\ processing = FALSE
  /\ lastRequestTime = 0
  /\ now = StartTime
  /\ loops = [l \in Loops |-> IdleLoop]
  /\ enqueued = 0
  /\ result = [t \in Tasks |-> NotEnqueued]
  /\ outcomes = [t \in Tasks |-> <<>>]
  /\ backoffs = [t \in Tasks |-> <<>>]
  /\ invocations = <<>>
  /\ request = NoRequest
  /\ scanPc = "idle"
  /\ inFlight = {}
  /\ assets = [side \in Sides |-> NotListed]
  /\ filesInBoth = <<>>
  /\ filteredFilesInBoth = <<>>
  /\ response = NoResponse
  /\ streamState = "none"
  /\ events = <<>>
  /\ idx = 0
  /\ got = [side \in Sides |-> NotFetched]
  /\ contents = NoContents
  /\ scanned = 0
  /\ diffed = 0
  /\ differentFiles = <<>>
  /\ diffContents = EmptyMap
  /\ contentFetches = <<>>
  /\ failedKeys = {}
  /\ emitted = <<>>
  /\ unread = <<>>
  /\ decoder = <<>>
  /\ buffer = <<>>
  /\ updates = <<>>
  /\ finalData = NoData
  /\ clientPc = "idle"
  /\ cuts = {}
  /\ compareRequest = NoTexts
  /\ compareResponse = NoCompare
  /\ entryRequest \in EntryRequests
  /\ entryPc = "idle"
  /\ entryAuth = FALSE
  /\ entryEnqueued = 0
  /\ entryGot = [side \in Sides |-> NotCalled]
  /\ entryResponse = NoEntryResponse
  /\ comparisons = {}
  /\ results = {}
  /\ saved = [comparisons |-> {}, results |-> {}]
  /\ deleteRequest = NoDelete
  /\ deletePc = "idle"
  /\ deleteResponse = NoDeleteResponse
  /\ listed = NotListedYet
  /\ hcPc = "idle"
  /\ ui = RestingUi
  /\ hcBody = NoBody
  /\ hcFinal = BlankEvent
  /\ posted = <<>>
  /\ created = NotCreated

\* The history holds some records, each with its child rows.
HistoryInit ==
  /\ queue = <<>>
  /\ processing = FALSE
  /\ lastRequestTime = 0
  /\ now = StartTime
  /\ loops = [l \in Loops |-> IdleLoop]
  /\ enqueued = 0
  /\ result = [t \in Tasks |-> NotEnqueued]
  /\ outcomes = [t \in Tasks |-> <<>>]
  /\ backoffs = [t \in Tasks |-> <<>>]
  /\ invocations = <<>>
  /\ request = NoRequest
  /\ scanPc = "idle"
  /\ inFlight = {}
  /\ assets = [side \in Sides |-> NotListed]
  /\ filesInBoth = <<>>
  /\ filteredFilesInBoth = <<>>
  /\ response = NoResponse
  /\ streamState = "none"
  /\ events = <<>>
  /\ idx = 0
  /\ got = [side \in Sides |-> NotFetched]
  /\ contents = NoContents
  /\ scanned = 0
  /\ diffed = 0
  /\ differentFiles = <<>>
  /\ diffContents = EmptyMap
  /\ contentFetches = <<>>
  /\ failedKeys = {}
  /\ emitted = <<>>
  /\ unread = <<>>
  /\ decoder = <<>>
  /\ buffer = <<>>
  /\ updates = <<>>
  /\ finalData = NoData
  /\ clientPc = "idle"
  /\ cuts = {}
  /\ compareRequest = NoTexts
  /\ compareResponse = NoCompare
  /\ entryRequest = NoEntryRequest
  /\ entryPc = "idle"
  /\ entryAuth = FALSE
  /\ entryEnqueued = 0
  /\ entryGot = [side \in Sides |-> NotCalled]
  /\ entryResponse = NoEntryResponse
  /\ saved \in Stores
  /\ comparisons = saved.comparisons
  /\ results = saved.results
  /\ deleteRequest = NoDelete
  /\ deletePc = "idle"
  /\ deleteResponse = NoDeleteResponse
  /\ listed = NotListedYet
  /\ hcPc = "idle"
  /\ ui = RestingUi
  /\ hcBody = NoBody
  /\ hcFinal = BlankEvent
  /\ posted = <<>>
  /\ created = NotCreated

\* The page after an earlier comparison or none; handleCompare is about to
\* be called.
HandleInit ==
  /\ queue = <<>>
  /\ processing = FALSE
  /\ lastRequestTime = 0
  /\ now = StartTime
  /\ loops = [l \in Loops |-> IdleLoop]
  /\ enqueued = 0
  /\ result = [t \in Tasks |-> NotEnqueued]
  /\ outcomes = [t \in Tasks |-> <<>>]
  /\ backoffs = [t \in Tasks |-> <<>>]
  /\ invocations = <<>>
  /\ request = NoRequest
  /\ scanPc = "idle"
  /\ inFlight = {}
  /\ assets = [side \in Sides |-> NotListed]
  /\ filesInBoth = <<>>
  /\ filteredFilesInBoth = <<>>
  /\ response = NoResponse
  /\ streamState = "none"
  /\ events = <<>>
  /\ idx = 0
  /\ got = [side \in Sides |-> NotFetched]
  /\ contents = NoContents
  /\ scanned = 0
  /\ diffed = 0
  /\ differentFiles = <<>>
  /\ diffContents = EmptyMap
  /\ contentFetches = <<>>
  /\ failedKeys = {}
  /\ emitted = <<>>
  /\ unread = <<>>
  /\ decoder = <<>>
  /\ buffer = <<>>
  /\ updates = <<>>
  /\ finalData = NoData
  /\ clientPc = "idle"
  /\ cuts = {}
  /\ compareRequest = NoTexts
  /\ compareResponse = NoCompare
  /\ entryRequest = NoEntryRequest
  /\ entryPc = "idle"
  /\ entryAuth = FALSE
  /\ entryEnqueued = 0
  /\ entryGot = [side \in Sides |-> NotCalled]
  /\ entryResponse = NoEntryResponse
  /\ comparisons = {}
  /\ results = {}
  /\ saved = [comparisons |-> {}, results |-> {}]
  /\ deleteRequest = NoDelete
  /\ deletePc = "idle"
  /\ deleteResponse = NoDeleteResponse
  /\ listed = NotListedYet
  /\ hcPc = "idle"
  /\ ui \in {[RestingUi EXCEPT !.themes = chosen, !.error = message,
                                 !.files = shown, !.currentFile = current] :
              chosen \in BOOLEAN, message \in {"", "earlier error"},
              shown \in {<<>>, <<FileA>>}, current \in {NoKey, FileA}}
  /\ hcBody = NoBody
  /\ hcFinal = BlankEvent
  /\ posted = <<>>
  /\ created = NotCreated

\* The RateLimiter under MaxTasks callers.
Spec == Init /\ [][RLNext(MaxTasks, TimeStep, MaxTicks)]_vars

\* The same program with fewer callers, followed for longer on a clock of whole
\* intervals (every backoff is a multiple of the interval).
SpecRetry == Init /\ [][RLNext(MaxRetryTasks, minRequestInterval, MaxRetryTicks)]_vars

\* The same program, every task body ending and every timer firing.
SpecLive == Init /\ [][LiveNext]_vars /\ LiveFairness

\* One request to the streaming scan loader.
SpecScan == ScanInit /\ [][ScanNext]_vars

\* The client reads one stream, cut into chunks in every possible way.
SpecClient == ClientInit /\ [][ClientNext]_vars
SpecMalformed == MalformedInit /\ [][ClientNext]_vars

\* The direct diff, for every pair of texts.
SpecDiff == CompareInit /\ [][DirectDiff]_vars

\* The reconciliation of two listings, for every pair of listings.
SpecReconcile == ReconcileInit /\ [][Reconcile]_vars

\* A scan of MaxScanKeys keys.
SpecLongScan == LongScanInit /\ [][LongScanNext]_vars

\* One request to the compare route.
SpecEntry == EntryInit /\ [][EntryNext]_vars

\* A DELETE and list requests against the history.
SpecHistory == HistoryInit /\ [][HistoryNext]_vars

\* One call of handleCompare and the POST it sends; every await settles.
SpecHandle == HandleInit /\ [][HandleNext]_vars /\ WF_vars(HandleNext)

(***************************************************************************)
(* What the RateLimiter's history shows.                                   *)
(***************************************************************************)
\* Activations of processQueue that have not left the loop.
ActiveLoops == {l \in Loops : loops[l].pc # "idle"}
\* Activations whose task is executing: invoked, retrying or backing off.
Executing == {l \in Loops : loops[l].pc \in {"running", "backoff"}}
\* The first invocation of each task, in the order they happened.
IsFirstCall(inv) == inv.retry = 0
Dispatches == SelectSeq(invocations, IsFirstCall)
\* The times at which the unread of task t was invoked.
CallsOf(t) == {i \in DOMAIN invocations : invocations[i].task = t}
\* Tasks whose unread has been invoked and whose promise is not settled.
Unsettled == {t \in Tasks : CallsOf(t) # {} /\ result[t].kind = "pending"}
\* Position in `invocations` of the k-th invocation of task t.
CallIndex(t, k) ==
  CHOOSE i \in CallsOf(t) : Cardinality({j \in CallsOf(t) : j <= i}) = k
CallTime(t, k) == invocations[CallIndex(t, k)].at

\* C1: at most one task is executing at any time, its retries and backoff
\* waits included: no task is invoked while another invoked task is unsettled,
\* and at most one processQueue loop consumes the queue.
C1_OneTaskAtATime ==
  /\ Cardinality(ActiveLoops) <= 1
  /\ Cardinality(Executing) <= 1
  /\ Cardinality(Unsettled) <= 1
  /\ \A l \in Executing : Unsettled = {loops[l].task}
  /\ ActiveLoops # {} => processing

\* A task is in a backoff wait while two others wait in the queue.
C1_Witness ==
  /\ Len(queue) >= 2
  /\ \E l \in Loops : loops[l].pc = "backoff"

\* C3: the start times of two consecutively dispatched tasks are at least
\* minRequestInterval apart.
C3_MinInterval ==
  \A i \in 2..Len(Dispatches) :
    Dispatches[i].at - Dispatches[i - 1].at >= minRequestInterval

\* Three tasks were dispatched: the second exactly one interval after the
\* first, the third later than one interval after the second.
C3_Witness ==
  /\ Len(Dispatches) = 3
  /\ Dispatches[2].at - Dispatches[1].at = minRequestInterval
  /\ Dispatches[3].at - Dispatches[2].at > minRequestInterval

\* C4: a task is invoked at most maxRetries + 1 = 4 times, and a task whose
\* four invocations all ended with status 429 has its enqueue promise
\* rejected with that error.
C4_RetriesExhausted ==
  \A t \in Tasks :
    /\ Cardinality(CallsOf(t)) <= maxRetries + 1
    /\ Cardinality(CallsOf(t)) <= 4
    /\ outcomes[t] = <<429, 429, 429, 429>> =>
         result[t] = [kind |-> "rejected", status |-> 429]

\* A task was throttled four times and rejected while another task waits.
C4_Witness ==
  \E t \in Tasks :
    /\ outcomes[t] = <<429, 429, 429, 429>>
    /\ result[t].kind = "rejected"
    /\ Cardinality(CallsOf(t)) = 4
    /\ Len(queue) = 1

\* C5: an invocation that fails with a status other than 429 is the last
\* invocation of its task: the promise is rejected with that error at once,
\* no backoff is requested for it, and a task whose first invocation fails so
\* is invoked exactly once.
C5_NoRetryOnOtherError ==
  \A t \in Tasks :
    \A i \in DOMAIN outcomes[t] :
      outcomes[t][i] \notin {200, 429} =>
        /\ i = Len(outcomes[t])
        /\ Cardinality(CallsOf(t)) = i
        /\ Len(backoffs[t]) = i - 1
        /\ result[t] = [kind |-> "rejected", status |-> outcomes[t][i]]
        /\ \A l \in Executing : loops[l].task # t

\* The first task failed with status 500 on its first invocation, and the
\* limiter has gone on to dispatch the next two.
C5_Witness ==
  /\ outcomes[1] = <<500>>
  /\ result[1] = [kind |-> "rejected", status |-> 500]
  /\ Cardinality(CallsOf(1)) = 1
  /\ Len(Dispatches) = 3

\* C6: a task throttled n <= 3 times that then succeeds has its promise
\* resolved with the success value; the backoff requested before retry k
\* (k = 0..n-1) is minRequestInterval * 2^k and retry k starts no sooner than
\* that after the invocation before it; for n = 2 the whole takes at least
\* 3 * minRequestInterval.
C6_BackoffSchedule ==
  \A t \in Tasks :
    result[t].kind = "resolved" =>
      LET n == Len(outcomes[t]) - 1 IN
      /\ n <= maxRetries
      /\ outcomes[t][n + 1] = 200
      /\ result[t].status = 200
      /\ Len(backoffs[t]) = n
      /\ Cardinality(CallsOf(t)) = n + 1
      /\ \A k \in 1..n :
           /\ outcomes[t][k] = 429
           /\ backoffs[t][k] = minRequestInterval * Pow2(k - 1)
           /\ CallTime(t, k + 1) - CallTime(t, k) >= minRequestInterval * Pow2(k - 1)
      /\ n = 2 => CallTime(t, 3) - CallTime(t, 1) >= minRequestInterval * (1 + 2)

\* A task was throttled twice, then succeeded, in the shortest time possible.
C6_Witness ==
  \E t \in Tasks :
    /\ outcomes[t] = <<429, 429, 200>>
    /\ result[t].kind = "resolved"
    /\ CallTime(t, 3) - CallTime(t, 1) = 3 * minRequestInterval

\* C7: tasks are dispatched in the order they were enqueued: the n-th
\* dispatch is of the n-th task enqueued, and the queue holds the tasks not
\* yet dispatched in enqueue order.
C7_Fifo ==
  /\ \A i \in DOMAIN Dispatches : Dispatches[i].task = i
  /\ queue = [i \in 1..(enqueued - Len(Dispatches)) |-> Len(Dispatches) + i]

\* All three tasks were enqueued before the first one settled, and all were
\* dispatched since.
C7_Witness ==
  /\ Len(Dispatches) = 3
  /\ Len(queue) = 0
  /\ Len(outcomes[1]) = 1
  /\ Dispatches[3].at - Dispatches[1].at = 2 * minRequestInterval

(***************************************************************************)
(* What a scan shows.                                                      *)
(***************************************************************************)
LastEvent == events[Len(events)]
DoneEvents == {i \in DOMAIN events : events[i].done}
\* Keys of filteredFilesInBoth for which both getAssetContent calls were made.
FetchedKeys ==
  {k \in KeyPool : \A side \in Sides :
     \E i \in DOMAIN contentFetches : contentFetches[i] = [key |-> k, side |-> side]}
FilteredKeys == {filteredFilesInBoth[i] : i \in DOMAIN filteredFilesInBoth}
\* The scan ran as a stream and its consumer stayed to the end.
StreamEnded ==
  response.kind = "stream" /\ scanPc = "done" /\ streamState # "cancelled"
\* Authentication gave no shop or no access token.
AuthFailure == ~request.authThrows /\ (~request.shop \/ ~request.accessToken)
\* One of the two listing calls failed.
ListingFailure == \E side \in Sides : assets[side].state = "failed"

\* C2: at most one remote call to the asset store is in flight at any moment.
C2_OneRemoteCallInFlight == Cardinality(inFlight) <= 1

\* C8: in a streaming scan whose listing succeeded and whose consumer stays
\* connected, whichever content fetches fail, the loop never stops early:
\* while it waits, the calls it waits for are in flight, and when it ends
\* both fetches of every key of the filtered intersection were made and the
\* last event, the only one with done = true, has scannedFiles equal to the
\* number of keys of the filtered intersection.
C8_FailureNeverAborts ==
  /\ (response.kind = "stream" /\ scanPc = "fetching") =>
       /\ idx \in DOMAIN filteredFilesInBoth
       /\ \A side \in Sides :
            got[side].state = "pending" =>
              ContentCall(filteredFilesInBoth[idx], side) \in inFlight
  /\ StreamEnded =>
       /\ streamState = "closed"
       /\ FetchedKeys = FilteredKeys
       /\ DoneEvents = {Len(events)}
       /\ LastEvent.scannedFiles = Len(filteredFilesInBoth)

\* A scan of two keys ended: a fetch of the first key failed, the second key
\* was found different.
C8_Witness ==
  /\ StreamEnded
  /\ Len(filteredFilesInBoth) = 2
  /\ failedKeys = {filteredFilesInBoth[1]}
  /\ LastEvent.files = <<filteredFilesInBoth[2]>>
  /\ LastEvent.scannedFiles = 2

\* C9: the per-file mapping of the final report holds an error entry for
\* every key whose fetch failed, and no such key is in the list of differing
\* keys.
C9_ErrorEntryInReport ==
  StreamEnded =>
    \A k \in failedKeys :
      /\ k \in DOMAIN LastEvent.diffContents
      /\ \A i \in DOMAIN LastEvent.files : LastEvent.files[i] # k

\* C10: when authentication gives no shop or no access token, or a listing
\* call fails, the request ends with one top-level error response: no
\* stream is built, no progress event is emitted, no content fetch is made.
C10_FatalErrorAborts ==
  (AuthFailure \/ ListingFailure) =>
    /\ events = <<>>
    /\ contentFetches = <<>>
    /\ streamState = "none"
    /\ response \in {NoResponse, JsonError(401), JsonError(500)}
    /\ AuthFailure => inFlight = {}
    /\ ListingFailure => scanPc = "done"
    /\ scanPc = "done" => response = JsonError(IF AuthFailure THEN 401 ELSE 500)

\* The source listing came back with keys and the target listing failed.
C10_Witness ==
  /\ assets["source"].state = "ok"
  /\ Len(assets["source"].listing) = MaxListing
  /\ assets["target"].state = "failed"
  /\ response = JsonError(500)
  /\ request.mode = "stream"

(***************************************************************************)
(* What the reconciliation of two listings shows.                          *)
(***************************************************************************)
Occurs(key, listing) == \E i \in DOMAIN listing : listing[i] = key
\* Place of the first occurrence of a key in a listing.
IndexOf(key, listing) ==
  CHOOSE i \in DOMAIN listing :
    listing[i] = key /\ \A j \in 1..(i - 1) : listing[j] # key
NoRepeats(listing) ==
  \A i, j \in DOMAIN listing : listing[i] = listing[j] => i = j
\* The name ends in .js, .json or .liquid.
HasScannedSuffix(key) ==
  Len(key) >= 2 /\ key[Len(key)] \in {"js", "json", "liquid"}

\* C11: for every pair of listings, filesInBoth holds exactly the keys that
\* are in the source listing and in the target listing, each once, in the
\* order of the source listing, however many keys only one side has.
C11_Intersection ==
  scanPc = "reconciled" =>
    LET src == assets["source"].listing
        tgt == assets["target"].listing
    IN /\ \A k \in KeyPool :
            Occurs(k, filesInBoth) <=> (Occurs(k, src) /\ Occurs(k, tgt))
       /\ NoRepeats(filesInBoth)
       /\ \A i, j \in DOMAIN filesInBoth :
            i < j => IndexOf(filesInBoth[i], src) < IndexOf(filesInBoth[j], src)

\* Two keys are in both listings, in opposite orders, and each side has a key
\* the other has not.
C11_Witness ==
  /\ scanPc = "reconciled"
  /\ Len(filesInBoth) = 2
  /\ IndexOf(filesInBoth[1], assets["target"].listing)
       > IndexOf(filesInBoth[2], assets["target"].listing)
  /\ \E k \in KeyPool : Occurs(k, assets["source"].listing)
                        /\ ~Occurs(k, assets["target"].listing)
  /\ \E k \in KeyPool : Occurs(k, assets["target"].listing)
                        /\ ~Occurs(k, assets["source"].listing)

\* C12: the filtered intersection is exactly the subsequence of the
\* intersection's keys that end in .js, .json or .liquid (a.json, b.liquid,
\* c.txt gives a.json, b.liquid), and every content fetch a scan makes is for
\* a key of the filtered intersection, one that passes the filter.
C12_FilterBeforeFetch ==
  /\ filteredFilesInBoth = SelectSeq(filesInBoth, HasScannedSuffix)
  /\ filesInBoth = <<<<"a", "json">>, <<"b", "liquid">>, <<"c", "txt">>>> =>
       filteredFilesInBoth = <<<<"a", "json">>, <<"b", "liquid">>>>
  /\ \A i \in DOMAIN contentFetches :
       /\ HasScannedSuffix(contentFetches[i].key)
       /\ Occurs(contentFetches[i].key, filteredFilesInBoth)

\* The scan of the intersection a.json, b.liquid, c.txt has ended after
\* fetching a.json and b.liquid from both sides.
C12_Witness ==
  /\ filesInBoth = <<<<"a", "json">>, <<"b", "liquid">>, <<"c", "txt">>>>
  /\ response.kind = "stream"
  /\ scanPc = "done"
  /\ Len(contentFetches) = 4

(***************************************************************************)
(* What the per-file comparison of a scan shows.                           *)
(***************************************************************************)
\* The two fetches of a key have succeeded; `contents` holds what they gave.
Compared == contents.key # NoKey
\* The line diff of the two bodies has an added or a removed part.
BodiesDiffer ==
  LET d == diffLines(contents.sourceContent, contents.targetContent)
  IN \E i \in DOMAIN d : d[i].added \/ d[i].removed
BothNonEmpty == contents.sourceContent # <<>> /\ contents.targetContent # <<>>

\* What holds of the key compared last, in every state.
ClassifiedRight ==
  /\ Compared =>
       /\ Occurs(contents.key, differentFiles) <=> (BodiesDiffer /\ BothNonEmpty)
       /\ (contents.sourceContent = <<>> /\ contents.targetContent = <<>>) =>
            /\ contents.key \notin DOMAIN diffContents
            /\ ~Occurs(contents.key, differentFiles)
  /\ \A k \in failedKeys : ~Occurs(k, differentFiles)
\* The list changes only by taking the key compared in that step, at its end.
GrowsByComparedKey ==
  differentFiles' # differentFiles =>
    /\ contents'.key # NoKey
    /\ differentFiles' = Append(differentFiles, contents'.key)

\* C13: in a streaming scan a key is added to the differing-keys list if and
\* only if its two fetches succeeded, the line diff of its bodies has an added
\* or removed part, and both bodies are non-empty; a key whose bodies are both
\* empty never gets into the per-file output. The list only grows, and only
\* by the key whose comparison has just been made.
C13_DiffersIff == []ClassifiedRight /\ [][GrowsByComparedKey]_vars

\* The second key of a scan was compared: its source unread is empty and its
\* target unread is not, so it is not listed; the first key is.
C13_Witness ==
  /\ Len(filteredFilesInBoth) >= 2
  /\ contents.key = filteredFilesInBoth[2]
  /\ contents.sourceContent = <<>>
  /\ contents.targetContent # <<>>
  /\ differentFiles = <<filteredFilesInBoth[1]>>

\* The keys a list holds.
KeysOf(listing) == {listing[i] : i \in DOMAIN listing}

\* C14: in every state of a scan the differing-keys list has no key twice
\* and only keys of the intersection, every key in it has a per-file entry
\* with isDifferent = true, and in the final event the keys of diffContents
\* are exactly the keys listed in files.
C14_DifferingKeysInvariant ==
  /\ NoRepeats(differentFiles)
  /\ KeysOf(differentFiles) \subseteq KeysOf(filesInBoth)
  /\ \A k \in KeysOf(differentFiles) :
       /\ k \in DOMAIN diffContents
       /\ diffContents[k].isDifferent = TRUE
  /\ \A i \in DoneEvents :
       /\ DOMAIN events[i].diffContents = KeysOf(events[i].files)
       /\ events[i].files = differentFiles
       /\ \A k \in KeysOf(events[i].files) : events[i].diffContents[k].isDifferent

\* The final event of a scan of three keys lists two of them; a fetch of the
\* other failed.
C14_Witness ==
  /\ DoneEvents # {}
  /\ Len(filteredFilesInBoth) = 3
  /\ Len(LastEvent.files) = 2
  /\ failedKeys # {}

\* C15: within one scan the keys are processed in the order of the filtered
\* listing (the i-th pair of content fetches is for its i-th key), the
\* differing-keys list is a subsequence of that order, and the scannedFiles
\* values of successive events, error events and the final event included,
\* never decrease.
C15_ListingOrder ==
  /\ \A i \in DOMAIN contentFetches :
       /\ (i + 1) \div 2 \in DOMAIN filteredFilesInBoth
       /\ contentFetches[i].key = filteredFilesInBoth[(i + 1) \div 2]
  /\ \A i, j \in DOMAIN differentFiles :
       i < j => IndexOf(differentFiles[i], filteredFilesInBoth)
                  < IndexOf(differentFiles[j], filteredFilesInBoth)
  /\ \A i, j \in DOMAIN events :
       i < j => /\ events[i].scannedFiles >= 0
                /\ events[i].scannedFiles <= events[j].scannedFiles

\* A scan of three keys has ended: the first and the third key differ, the
\* second gave an error event.
C15_Witness ==
  /\ DoneEvents # {}
  /\ Len(filteredFilesInBoth) = 3
  /\ differentFiles = <<filteredFilesInBoth[1], filteredFilesInBoth[3]>>
  /\ \E i \in DOMAIN events : events[i].kind = "error" /\ events[i].scannedFiles = 2
  /\ LastEvent.scannedFiles = 3

\* The loader has answered with a stream.
Streaming == response.kind = "stream"
\* No call the loop awaits is outstanding, and every key was taken.
AllProcessed ==
  /\ idx = Len(filteredFilesInBoth) + 1
  /\ scanned = Len(filteredFilesInBoth)
  /\ FetchedKeys = FilteredKeys
  /\ Len(contentFetches) = 2 * Len(filteredFilesInBoth)

\* The loop of a stream that has not ended waits for a call that is in
\* flight: when the call settles, the loop goes on.
LoopCanGoOn ==
  (Streaming /\ scanPc # "done") =>
    /\ scanPc = "fetching"
    /\ idx \in DOMAIN filteredFilesInBoth
    /\ \E side \in Sides :
         /\ got[side].state = "pending"
         /\ ContentCall(filteredFilesInBoth[idx], side) \in inFlight

\* C16: every scan stream that starts, and whose consumer stays, emits
\* exactly one event with done = true: there is never more than one, it is
\* the last event (nothing is emitted after it), it comes only after every
\* key of the filtered intersection was processed, it carries the complete
\* files list, diffContents and counts, the stream is closed in the same
\* step, and a stream that has not ended can always go on towards it.
C16_OneFinalEvent ==
  /\ DoneEvents \subseteq {Len(events)}
  /\ streamState = "closed" <=> DoneEvents # {}
  /\ DoneEvents # {} =>
       /\ scanPc = "done"
       /\ AllProcessed
       /\ LastEvent.files = differentFiles
       /\ LastEvent.diffContents = diffContents
       /\ LastEvent.totalFiles = Len(filteredFilesInBoth)
       /\ LastEvent.scannedFiles = Len(filteredFilesInBoth)
       /\ LastEvent.diffedFiles = Len(differentFiles)
  /\ (Streaming /\ scanPc = "done" /\ streamState # "cancelled") => DoneEvents # {}
  /\ LoopCanGoOn

\* A stream over three keys has been closed with its final event.
C16_Witness ==
  /\ streamState = "closed"
  /\ Len(filteredFilesInBoth) = 3
  /\ DoneEvents = {Len(events)}
  /\ Len(LastEvent.files) = 1

\* C17: once the consumer has disconnected from the progress stream, the
\* loop dispatches no further content fetch (those of the key in progress
\* at that moment were dispatched before).
C17_NoFetchAfterDisconnect ==
  [][streamState = "cancelled" => contentFetches' = contentFetches]_vars

\* C19: a scan request in count mode returns totalFileCount equal to the
\* size of the filtered intersection, makes no content fetch, builds no
\* stream and emits no progress event.
C19_CountMode ==
  request.mode = "count" =>
    /\ contentFetches = <<>>
    /\ events = <<>>
    /\ streamState = "none"
    /\ response.kind # "stream"
    /\ \A call \in inFlight : call.kind = "list"
    /\ (scanPc = "done" /\ response.status = 200) =>
         /\ response.totalFileCount = Len(filteredFilesInBoth)
         /\ response.totalFileCount = Len(SelectSeq(filesInBoth, HasScannedSuffix))
         /\ inFlight = {}

\* A count request was answered with 2 for an intersection of three keys.
C19_Witness ==
  /\ request.mode = "count"
  /\ scanPc = "done"
  /\ response.status = 200
  /\ response.totalFileCount = 2
  /\ Len(filesInBoth) = 3

(***************************************************************************)
(* What the client's reading of a stream shows.                            *)
(***************************************************************************)
\* C18: however the stream of newline-ended events is cut into read chunks,
\* inside the final event and inside a character included, the client has
\* parsed, when the stream ends, exactly the events emitted, in order (what
\* it parses of the stream read as one chunk), and finalData is the event
\* with done = true; before that, what it has parsed is a prefix of them.
C18_ChunkingInvisible ==
  /\ clientPc = "reading" =>
       /\ Len(updates) <= Len(emitted)
       /\ updates = SubSeq(emitted, 1, Len(updates))
  /\ clientPc = "finished" =>
       /\ updates = emitted
       /\ finalData = emitted[Len(emitted)]
       /\ finalData.done

\* A stream of two progress events and the final one was read to its end in
\* chunks, one of which ended inside the final event and one inside a
\* character.
C18_Witness ==
  /\ clientPc = "finished"
  /\ Len(emitted) = 3
  /\ cuts = {"final", "character"}
  /\ finalData.done

(***************************************************************************)
(* What the direct diff shows.                                             *)
(***************************************************************************)
\* The texts of the spans with one of the ops, put together in order.
RECURSIVE Reassembled(_, _)
Reassembled(diffs, ops) ==
  IF diffs = <<>> THEN <<>>
  ELSE (IF Head(diffs).op \in ops THEN Head(diffs).text ELSE <<>>)
       \o Reassembled(Tail(diffs), ops)

\* C20: for all text pairs given to the direct diff, the texts of the
\* returned insert and equal spans, put together in order, are the returned
\* targetContent, and those of the delete and equal spans are the returned
\* sourceContent.
C20_RoundTrip ==
  compareResponse.kind = "json" =>
    /\ Reassembled(compareResponse.diffs, {0, 1}) = compareResponse.targetContent
    /\ Reassembled(compareResponse.diffs, {0, -1}) = compareResponse.sourceContent


(***************************************************************************)
(* The statistics of a diff.                                               *)
(***************************************************************************)
\* Number of newline characters in the texts of the spans of kind op.
NewlineChars(diffs, op) ==
  Cardinality({i \in DOMAIN Tokens(diffs) :
                 Tokens(diffs)[i].op = op /\ Tokens(diffs)[i].char = "\n"})

\* C21: in every diff result, additions is the number of newline characters
\* in the texts of the insert spans, deletions that of the delete spans (a
\* span without a newline adds nothing), and linesChanged is their sum.
C21_StatsCountNewlines ==
  compareResponse.kind = "json" =>
    /\ compareResponse.stats.additions = NewlineChars(compareResponse.diffs, 1)
    /\ compareResponse.stats.deletions = NewlineChars(compareResponse.diffs, -1)
    /\ compareResponse.stats.linesChanged =
         compareResponse.stats.additions + compareResponse.stats.deletions

\* A result with an insert span that holds text but no newline, and a delete
\* span that holds one.
C21_Witness ==
  /\ compareResponse.kind = "json"
  /\ \E i \in DOMAIN compareResponse.diffs :
       /\ compareResponse.diffs[i].op = 1
       /\ compareResponse.diffs[i].text # <<>>
       /\ NewLines(compareResponse.diffs[i].text) = 0
  /\ compareResponse.stats.additions = 0
  /\ compareResponse.stats.deletions = 1
  /\ compareResponse.stats.linesChanged = 1

\* C22: the diff of a text with itself is a single equal span (no span for
\* the empty text), and its statistics are all 0.
C22_DiffOfSelf ==
  (compareResponse.kind = "json"
   /\ compareRequest.sourceContent = compareRequest.targetContent) =>
    /\ IF compareRequest.sourceContent = <<>>
       THEN compareResponse.diffs = <<>>
       ELSE /\ Len(compareResponse.diffs) = 1
            /\ compareResponse.diffs[1].op = 0
    /\ compareResponse.stats = [additions |-> 0, deletions |-> 0, linesChanged |-> 0]

\* A text of several lines has been compared with itself.
C22_Witness ==
  /\ compareResponse.kind = "json"
  /\ compareRequest.sourceContent = compareRequest.targetContent
  /\ NewLines(compareRequest.sourceContent) >= 1
  /\ Len(compareRequest.sourceContent) >= 2
  /\ Len(compareResponse.diffs) = 1

(***************************************************************************)
(* Content fetches across keys.                                            *)
(***************************************************************************)
ContentCallsInFlight == {call \in inFlight : call.kind = "content"}

\* C28: the content fetches in flight at any moment all belong to one key
\* (so at most two are in flight): the next key's fetches are not dispatched
\* before both fetches of the current key have settled, also when one of
\* the two fails first.
C28_OneKeyInFlight ==
  /\ \A c1, c2 \in ContentCallsInFlight : c1.key = c2.key
  /\ Cardinality(ContentCallsInFlight) <= 2

(***************************************************************************)
(* The stages and the pace of the progress events.                         *)
(***************************************************************************)
\* C29: the stages of the events of one stream follow scanning, diffing,
\* idle: no event of stage scanning comes after an event of stage diffing,
\* and stage idle is carried by the final done event only.
C29_StageOrder ==
  /\ \A i, j \in DOMAIN events :
       (i < j /\ events[i].stage = "diffing") => events[j].stage # "scanning"
  /\ \A i \in DOMAIN events :
       events[i].stage = "idle" => (events[i].done /\ i = Len(events))

\* An event was emitted while key number k was being processed: the
\* scanning event at its head, or the diffing or error event at its end.
EventDuring(k) ==
  \E i \in DOMAIN events :
    \/ events[i].kind = "scanning" /\ events[i].scannedFiles = k - 1
    \/ events[i].kind \in {"diffing", "error"} /\ events[i].scannedFiles = k

\* Key number k has been processed: its fetches have settled and the loop
\* has gone past it.
Processed(k) == k <= scanned /\ k < idx

\* The keys classified as differing each have their event.
DifferingKeysNamed ==
  \A i \in DOMAIN differentFiles :
    \E j \in DOMAIN events :
      /\ events[j].kind = "diffing"
      /\ events[j].currentFile = differentFiles[i]
      /\ events[j].isDifferent
      /\ events[j].diffedFiles = i

\* C30: while the consumer is connected, no ProgressEvery keys in a row are
\* processed without an event being emitted, and a key classified as
\* differing has its event, naming it, by the time the next key's fetches
\* are dispatched.
C30_ProgressPace ==
  streamState \in {"readable", "closed"} =>
    /\ \A k \in 1..Len(filteredFilesInBoth) :
         Processed(k + ProgressEvery - 1) =>
           \E m \in k..(k + ProgressEvery - 1) : EventDuring(m)
    /\ DifferingKeysNamed

\* ProgressEvery keys have been processed and the fetches of the next are
\* in flight; the third key differs and has its event, the second and the
\* fourth passed without one.
C30_Witness ==
  /\ streamState = "readable"
  /\ scanPc = "fetching"
  /\ idx > ProgressEvery
  /\ differentFiles = <<filteredFilesInBoth[3]>>
  /\ EventDuring(3)
  /\ ~EventDuring(2)
  /\ ~EventDuring(4)
  /\ EventDuring(ProgressEvery)

(***************************************************************************)
(* The compare route: the per-file path and the direct path.               *)
(***************************************************************************)
\* The request was answered on the per-file path from the two bodies the
\* remote calls returned.
PerFileAnswered ==
  /\ entryPc = "done"
  /\ \A side \in Sides : entryGot[side].state = "fulfilled"

\* C23: for a file whose source body is "foo\nbar\n" and whose target body
\* is "foo\nbaz\n" the per-file diff is [equal "foo\n", delete "bar\n",
\* insert "baz\n"] with additions = 1, deletions = 1, linesChanged = 2.
C23_LineScenario ==
  (/\ PerFileAnswered
   /\ entryGot["source"].value = FooBar
   /\ entryGot["target"].value = FooBaz) =>
    /\ entryResponse.diffs =
         <<Span(0, <<"f", "o", "o", "\n">>), Span(-1, <<"b", "a", "r", "\n">>),
           Span(1, <<"b", "a", "z", "\n">>)>>
    /\ entryResponse.stats = [additions |-> 1, deletions |-> 1, linesChanged |-> 2]

\* The theme of this side does not hold the file.
Absent(side) == entryGot[side].state # "pending" /\ entryGot[side].status = 404
\* The theme of this side holds the file, and the file has a body.
Present(side) == entryGot[side].status = 200 /\ entryGot[side].value \in FileBodies

\* C26: on the per-file path, when the file is absent from both themes the
\* answer is a not-found error without a diff; when it is absent from one
\* theme only, that body counts as the empty string and the diff against the
\* other body is returned.
C26_AbsentBodies ==
  (/\ entryPc = "done"
   /\ \A side \in Sides : entryGot[side].state \notin {"none", "pending"}) =>
    /\ (Absent("source") /\ Absent("target")) =>
         /\ entryResponse.kind = "json"
         /\ entryResponse.status = 404
         /\ entryResponse.fields = {"error"}
    /\ (Absent("source") /\ Present("target")) =>
         /\ entryResponse.kind = "json"
         /\ entryResponse.status = 200
         /\ entryResponse.sourceContent = <<>>
         /\ Len(entryResponse.diffs) = 1
         /\ entryResponse.diffs[1].op = 1
    /\ (Present("source") /\ Absent("target")) =>
         /\ entryResponse.kind = "json"
         /\ entryResponse.status = 200
         /\ entryResponse.targetContent = <<>>
         /\ Len(entryResponse.diffs) = 1
         /\ entryResponse.diffs[1].op = -1

\* C27: a request that supplies both sourceContent and targetContent is
\* answered from them alone: no authentication, no remote call, nothing
\* enqueued on the RateLimiter, and the answer has the fields of a per-file
\* diff report.
C27_DirectPath ==
  (/\ entryPc # "idle"
   /\ entryRequest.sourceContent # Null
   /\ entryRequest.targetContent # Null) =>
    /\ entryPc = "done"
    /\ ~entryAuth
    /\ entryEnqueued = 0
    /\ \A side \in Sides : entryGot[side] = NotCalled
    /\ entryResponse.kind = "json"
    /\ entryResponse.status = 200
    /\ entryResponse.fields = DiffFields
    /\ entryResponse.sourceContent = entryRequest.sourceContent
    /\ entryResponse.targetContent = entryRequest.targetContent
    /\ entryResponse.diffs =
         DirectDiffResponse(entryRequest.sourceContent, entryRequest.targetContent).diffs
    /\ entryResponse.stats =
         DirectDiffResponse(entryRequest.sourceContent, entryRequest.targetContent).stats

\* Two different bodies were posted to the route of part_000, with no file
\* named and no session to authenticate; the answer is their diff.
C27_Witness ==
  /\ entryPc = "done"
  /\ entryRequest.route = "part_000"
  /\ entryRequest.method = "POST"
  /\ entryRequest.sourceContent = FooBar
  /\ entryRequest.targetContent = FooBaz
  /\ ~entryRequest.hasParams
  /\ entryRequest.authThrows
  /\ entryResponse.fields = DiffFields
  /\ Len(entryResponse.diffs) = 4

(***************************************************************************)
(* The comparison history.                                                 *)
(***************************************************************************)
\* C24: a record is deleted as a whole: whatever the interleaving of a
\* DELETE with list requests, and also when the DELETE fails between its two
\* steps, no list shows a record that still exists without the child rows
\* it was created with.
C24_DeletedAsAUnit ==
  \A rec \in listed.records : rec.results = ResultsOf(saved.results, rec.id)

\* The record the DELETE names was there when the request arrived.
Matches == \E c \in saved.comparisons : c.id = deleteRequest.id

Store == [comparisons |-> comparisons, results |-> results]

\* C25: a DELETE whose id matches no record answers not-found, without
\* throwing, and leaves the store as it was; one whose id matches a record
\* answers success and the record is gone; one without an id is refused and
\* changes nothing (the database itself not failing).
C25_DeleteOutcomes ==
  (deletePc = "done" /\ deleteResponse.error # "database") =>
    /\ deleteRequest.id = NoId =>
         /\ deleteResponse.kind = "json"
         /\ deleteResponse.status = 400
         /\ Store = saved
    /\ (deleteRequest.id # NoId /\ ~Matches) =>
         /\ deleteResponse.kind = "json"
         /\ deleteResponse.status = 404
         /\ Store = saved
    /\ (deleteRequest.id # NoId /\ Matches) =>
         /\ deleteResponse.kind = "json"
         /\ deleteResponse.status = 200
         /\ \A c \in comparisons : c.id # deleteRequest.id
         /\ \A row \in results : row.comparisonId # deleteRequest.id

(***************************************************************************)
(* The counters and the flags of the progress events.                      *)
(***************************************************************************)
\* C32: no event of a scan carries scannedFiles above the scan's totalFiles:
\* every key of the filtered intersection adds one to scanned, once, also
\* when what fails for the key fails after its two fetches succeeded.
C32_ScannedOncePerKey ==
  /\ \A i \in DOMAIN events : events[i].scannedFiles <= Len(filteredFilesInBoth)
  /\ scanned <= Len(filteredFilesInBoth)

\* C35: a progress event with isDifferent = true names a key of the files
\* list of the final event of its stream.
C35_DifferentIsListed ==
  \A i, j \in DOMAIN events :
    (events[i].isDifferent /\ events[j].done) =>
      \E k \in DOMAIN events[j].files : events[j].files[k] = events[i].currentFile

(***************************************************************************)
(* The pace of the remote calls, retries included.                         *)
(***************************************************************************)
\* C34: any two invocations of a task body that follow one another, retries
\* counted, start at least minRequestInterval apart; so does the first
\* invocation of the next task after the last retry of the one before.
C34_IntervalAcrossRetries ==
  \A i \in 2..Len(invocations) :
    invocations[i].at - invocations[i - 1].at >= minRequestInterval

(***************************************************************************)
(* Shops and the history.                                                  *)
(***************************************************************************)
\* C36: a DELETE of one shop's session removes no record and no child row of
\* another shop, and a list answers with records of the asking shop only.
C36_ShopIsolation ==
  /\ \A c \in saved.comparisons \ comparisons : c.shop = deleteRequest.shop
  /\ \A row \in saved.results \ results :
       \E c \in saved.comparisons :
         c.id = row.comparisonId /\ c.shop = deleteRequest.shop
  /\ \A rec \in listed.records : rec.shop = listed.shop

(***************************************************************************)
(* A line that is not JSON among the lines of the stream.                  *)
(***************************************************************************)
\* C31: a line of the stream that JSON.parse rejects is passed over and the
\* reading goes on: the client parses every event before and after it, in
\* order, and the event with done = true that comes later is the final data.
C31_MalformedLineSkipped ==
  /\ clientPc = "reading" =>
       /\ Len(updates) <= Len(emitted)
       /\ updates = SubSeq(emitted, 1, Len(updates))
  /\ clientPc = "finished" =>
       /\ updates = emitted
       /\ finalData = emitted[Len(emitted)]
       /\ finalData.done

\* A stream of two progress events and the final one, with a line that is
\* not JSON somewhere before the final one, was read to its end: the parse
\* failed once and the three events were processed.
C31_Witness ==
  /\ clientPc = "finished"
  /\ "parse error" \in cuts
  /\ Len(emitted) = 3
  /\ Len(updates) = 3
  /\ finalData.done

(***************************************************************************)
(* The limiter comes to rest.                                              *)
(***************************************************************************)
\* The loop activation l is inside await task(): the task runs, backs off,
\* or has settled and the loop has not taken its next turn yet.
TaskInHand(l) == loops[l].pc \in {"running", "backoff", "settled"}
Settled(t) == result[t].kind \in {"resolved", "rejected"}
Dispatched(t) == \E i \in DOMAIN invocations : invocations[i].task = t

\* C33: task bodies ending, every task enqueued is dispatched and its enqueue
\* promise settles, however the enqueue calls fall among the steps of the
\* loop, the moment the loop is leaving included; and processing is false
\* whenever the queue is empty and no task is in hand.
C33_NoLostWakeUp ==
  /\ []((queue = <<>> /\ \A l \in Loops : ~TaskInHand(l)) => ~processing)
  /\ \A t \in Tasks :
       (result[t].kind = "pending") ~> (Dispatched(t) /\ Settled(t))

\* All the tasks were enqueued, one of them was retried, all have settled
\* and the limiter is at rest.
C33_Witness ==
  /\ enqueued = MaxLiveTasks
  /\ \A t \in 1..MaxLiveTasks : Dispatched(t) /\ Settled(t)
  /\ Len(invocations) > MaxLiveTasks
  /\ queue = <<>>
  /\ \A l \in Loops : loops[l].pc = "idle"
  /\ ~processing

(***************************************************************************)
(* What the page shows and saves after a comparison.                       *)
(***************************************************************************)
\* A history record was created from the body the page posted.
Saved == created.kind = "record"

\* C37: the record saved after a completed scan has a difference count equal
\* to the number of keys of the files list of the scan's final event.
C37_SavedDifferenceCount ==
  Saved => created.differences = Len(hcFinal.files)

\* The stream was read to its close and no event of it had done = true.
EndedWithoutDone ==
  /\ hcPc = "returned"
  /\ hcBody.ends = "closed"
  /\ ~hcFinal.done

\* C38: with both themes chosen, a call of handleCompare returns, and when
\* it has returned loading is false, currentStage is idle and currentFile is
\* empty, whether the count request failed, the stream failed or the scan
\* completed; after a stream that closed without a done event the error is
\* set, files is empty and nothing was posted to the history.
C38_HandleCompareSettles ==
  /\ []((ui.themes /\ hcPc = "returned") =>
          /\ ~ui.loading
          /\ ui.currentStage = "idle"
          /\ ui.currentFile = NoKey)
  /\ []((ui.themes /\ EndedWithoutDone) =>
          /\ ui.error # ""
          /\ ui.files = <<>>
          /\ posted = <<>>)
  /\ (ui.themes /\ hcPc = "counting") ~> (hcPc = "returned")

\* A stream that had named a file closed before its final event, on a page
\* that showed a file list from an earlier comparison.
C38_Witness ==
  /\ ui.themes
  /\ EndedWithoutDone
  /\ ui.scannedFiles = 1
  /\ ui.error = "No final data received from server"
  /\ ~ui.loading
====
